---- MODULE Spec2Model ----
(***************************************************************************)
(* Model of the iTIP snapshot extractor                                    *)
(* (crates/groupware/src/scheduling/snapshot.rs, itip_snapshot).           *)
(*                                                                         *)
(* One extraction is a walk over a parsed calendar: a precondition check,  *)
(* then for every scheduling component the kind check, one step per        *)
(* property, the insertion of the component's snapshot under its instance  *)
(* key, and the final checks.  The calendar, the account's address set and *)
(* the force_add_client_scheduling flag are the inputs, drawn in Init.     *)
(*                                                                         *)
(* Text values are sequences of characters, so that trimming and           *)
(* normalisation are computed and not assumed.                             *)
(*                                                                         *)
(* Two further programs are modelled, each under a specification of its    *)
(* own: the loop of the SMTP queue manager with its on-hold list           *)
(* (crates/smtp/src/queue/manager.rs, QueueSpec) and the DNSBL check with  *)
(* the cache its calls share (crates/spam-filter/src/modules/dnsbl.rs,     *)
(* is_dnsbl, DnsblSpec).                                                   *)
(***************************************************************************)
EXTENDS Integers, Sequences, FiniteSets, TLC

\* Bounds of the calendars drawn in Init: the components of a calendar, and
\* the properties of a component that is alone in its calendar.
MaxComps == 2
MaxEntries == 4

\* Bounds of the queue manager's runs: the OnHold events the loop receives,
\* the latest due time (and the time to which the clock ticks), the events
\* one call of next_event returns, and the capacity of a limiter.
MaxReceived == 2
MaxDue == 2
MaxEvents == 2
MaxConcurrent == 1

\* Bounds of the DNSBL runs: the time to which the clock ticks, and the
\* longest life of a record the resolver returns.
MaxInstant == 1
MaxTtl == 1

\* Option: None is the empty sequence, Some(x) the one-element sequence.
None == <<>>
Some(x) == <<x>>
Unwrap(opt) == opt[1]

----------------------------------------------------------------------------
(* Text helpers                                                            *)

RECURSIVE TrimStart(_)
\* str::trim, leading part
TrimStart(s) ==
    IF s # <<>> /\ Head(s) = " " THEN TrimStart(Tail(s)) ELSE s

RECURSIVE TrimEnd(_)
\* str::trim, trailing part
TrimEnd(s) ==
    IF s # <<>> /\ s[Len(s)] = " " THEN TrimEnd(SubSeq(s, 1, Len(s) - 1)) ELSE s

\* str::trim
Trim(s) == TrimEnd(TrimStart(s))

\* ASCII lower-casing of one character ("MAILTO:" stands for the scheme
\* written in upper case)
LowerChar(c) ==
    CASE c = "A" -> "a"
      [] c = "B" -> "b"
      [] c = "MAILTO:" -> "mailto:"
      [] OTHER -> c

Lower(s) == [i \in 1..Len(s) |-> LowerChar(s[i])]

HasAt(s) == \E i \in 1..Len(s) : s[i] = "@"

\* Email classifier (4.A): strips a leading mailto: (any case), trims,
\* lower-cases; None for empty or unparsable input; is_local iff the
\* normalised address is in the account's address set.
EmailNew(text, accounts) ==
    LET t1 == Trim(text)
        t2 == IF t1 # <<>> /\ LowerChar(Head(t1)) = "mailto:" THEN Tail(t1) ELSE t1
        addr == Lower(Trim(t2))
    IN  IF addr = <<>> \/ ~HasAt(addr)
        THEN None
        ELSE Some([email |-> addr, is_local |-> addr \in accounts])

----------------------------------------------------------------------------
(* Calendar values (the parser's contract, section 6)                      *)

Text(s) == [t |-> "Text", v |-> s]
Integer(n) == [t |-> "Integer", v |-> n]
\* A partial date-time: its wall-clock seconds `local`, and whether it
\* carries every field a conversion to an instant needs (`complete`).
PartialDateTime(local, complete) ==
    [t |-> "PartialDateTime", local |-> local, complete |-> complete]
Binary == [t |-> "Binary"]

\* ICalendarValue::as_text
as_text(v) == IF v.t = "Text" THEN Some(v.v) ELSE None
\* ICalendarValue::as_integer
as_integer(v) == IF v.t = "Integer" THEN Some(v.v) ELSE None
\* ICalendarValue::as_partial_date_time
as_partial_date_time(v) == IF v.t = "PartialDateTime" THEN Some(v) ELSE None

\* entry.values.first()
first(values) == IF values = <<>> THEN None ELSE Some(Head(values))

\* entry.values.first().and_then(|v| v.as_text())
first_text(entry) ==
    IF first(entry.values) = None THEN None ELSE as_text(Unwrap(first(entry.values)))

\* ICalendarComponentType::is_scheduling_object
is_scheduling_object(kind) == kind \in {"VEVENT", "VTODO", "VJOURNAL", "VFREEBUSY"}

\* Parameters
ScheduleAgent(a) == [p |-> "ScheduleAgent", v |-> a]
ScheduleForceSend(f) == [p |-> "ScheduleForceSend", v |-> f]
Tzid(id) == [p |-> "Tzid", v |-> id]
Range == [p |-> "Range"]
Rsvp(b) == [p |-> "Rsvp", v |-> b]
Partstat(s) == [p |-> "Partstat", v |-> s]
Language == [p |-> "Language"]

Entry(name, values, params) == [name |-> name, values |-> values, params |-> params]

----------------------------------------------------------------------------
(* The calendars drawn in Init                                             *)

\* Raw calendar addresses: the account's own address written two ways, a
\* remote address, and a value that is no address.
AddrLocal == <<"mailto:", "a", "@", "x">>
AddrLocalUpper == <<" ", "MAILTO:", "A", "@", "x">>
AddrRemote == <<"mailto:", "r", "@", "y">>
AddrBroken == <<"a">>

\* The account's address set (normalised addresses)
AccountEmails == {<<"a", "@", "x">>}

OrgLocal == Entry("Organizer", <<Text(AddrLocal)>>, <<>>)
OrgLocalClient ==
    Entry("Organizer", <<Text(AddrLocalUpper)>>, <<ScheduleAgent("CLIENT")>>)
OrgRemote ==
    Entry("Organizer", <<Text(AddrRemote)>>,
          <<ScheduleAgent("SERVER"), ScheduleForceSend("REQUEST")>>)
OrgBroken == Entry("Organizer", <<Text(AddrBroken)>>, <<>>)

AttLocal == Entry("Attendee", <<Text(AddrLocalUpper)>>, <<Rsvp(TRUE)>>)
AttLocalClient ==
    Entry("Attendee", <<Text(AddrLocal)>>, <<ScheduleAgent("CLIENT"), Rsvp(FALSE)>>)
AttRemote == Entry("Attendee", <<Text(AddrRemote)>>, <<Partstat("ACCEPTED")>>)

UidA == Entry("Uid", <<Text(<<"a">>)>>, <<>>)
UidAPadded == Entry("Uid", <<Text(<<" ", "a", " ">>)>>, <<>>)
UidB == Entry("Uid", <<Text(<<"b">>)>>, <<>>)
UidBlank == Entry("Uid", <<Text(<<" ">>)>>, <<>>)
UidEmpty == Entry("Uid", <<Text(<<>>)>>, <<>>)

RidOne == Entry("RecurrenceId", <<PartialDateTime(100, TRUE)>>, <<>>)
RidOneRange == Entry("RecurrenceId", <<PartialDateTime(100, TRUE)>>, <<Range>>)
RidTwoZoned ==
    Entry("RecurrenceId", <<PartialDateTime(110, TRUE)>>, <<Tzid(<<"Z">>)>>)

\* An ATTENDEE whose value is no address, and one that has no value
AttBroken == Entry("Attendee", <<Text(AddrBroken)>>, <<>>)
AttNoValue == Entry("Attendee", <<>>, <<>>)

\* Participants with other SCHEDULE-AGENT values, and with the parameter
\* given twice
OrgRemoteNone == Entry("Organizer", <<Text(AddrRemote)>>, <<ScheduleAgent("NONE")>>)
AttLocalNone == Entry("Attendee", <<Text(AddrLocal)>>, <<ScheduleAgent("NONE")>>)
AttRemoteTwice ==
    Entry("Attendee", <<Text(AddrRemote)>>,
          <<ScheduleAgent("CLIENT"), ScheduleAgent("SERVER")>>)

\* Date-times in a zone the calendar does not define, and a date-time that
\* lacks the fields a conversion to an instant needs
RidUnknownZone ==
    Entry("RecurrenceId", <<PartialDateTime(110, TRUE)>>, <<Tzid(<<"Q">>)>>)
RidPartial == Entry("RecurrenceId", <<PartialDateTime(100, FALSE)>>, <<>>)
DtstartUnknownZone ==
    Entry("Dtstart", <<PartialDateTime(110, TRUE)>>, <<Tzid(<<"Q">>)>>)

\* Date-times of zone Z at the local time its clocks skip
RidInGap == Entry("RecurrenceId", <<PartialDateTime(120, TRUE)>>, <<Tzid(<<"Z">>)>>)
DtstartInGap == Entry("Dtstart", <<PartialDateTime(120, TRUE)>>, <<Tzid(<<"Z">>)>>)

\* A RECURRENCE-ID with two parameters
RidRangeZoned ==
    Entry("RecurrenceId", <<PartialDateTime(110, TRUE)>>, <<Range, Tzid(<<"Z">>)>>)

DtstampOne == Entry("Dtstamp", <<PartialDateTime(100, TRUE)>>, <<>>)
DtstampTwo == Entry("Dtstamp", <<PartialDateTime(120, TRUE), PartialDateTime(100, TRUE)>>, <<>>)
DtstampText == Entry("Dtstamp", <<Text(<<"a">>)>>, <<>>)

SummaryA == Entry("Summary", <<Text(<<"a">>)>>, <<>>)

\* Properties of the organizers
OrganizerEntries ==
    { OrgLocal, OrgLocalClient, OrgRemote, OrgBroken, AttLocal, UidA }

\* Properties of the attendees
ParticipantEntries ==
    { OrgRemote, AttLocal, AttLocalClient, AttRemote, UidA, RidOne }

\* Properties of identity and instance
IdentityEntries ==
    { OrgLocal, UidA, UidAPadded, UidB, UidBlank,
      RidOne, RidOneRange, RidTwoZoned }

\* Properties of calendars with empty and blank UIDs
BlankUidEntries == { OrgLocal, UidA, UidB, UidBlank, UidEmpty }

\* Properties of the participants, by scheduling agent
AgentEntries ==
    { OrgRemote, OrgRemoteNone, AttLocalNone, AttLocalClient, AttRemoteTwice, UidA }

\* Properties of the calendars that are extracted a second time
ToleranceEntries == { OrgLocal, UidA, AttRemote, RidOne, SummaryA }

\* Properties of time zones: the RECURRENCE-IDs, and the start times
ZoneEntries ==
    { OrgLocal, UidA, RidTwoZoned, RidUnknownZone, RidPartial, RidInGap }

ZoneStartEntries == { OrgLocal, UidA, DtstartUnknownZone, DtstartInGap }

\* Properties with more than one parameter
OrderEntries ==
    { OrgRemote, AttLocalClient, AttRemoteTwice, UidA, RidRangeZoned }

\* Properties of the time stamp
StampEntries == { OrgLocal, UidA, DtstampOne, DtstampTwo, DtstampText }

\* Properties of content
ContentEntries ==
    { OrgLocal, UidA,
      Entry("Sequence", <<Integer(2)>>, <<>>),
      Entry("RequestStatus", <<Text(<<"a">>)>>, <<>>),
      Entry("Dtstart", <<PartialDateTime(110, TRUE)>>, <<Tzid(<<"Z">>)>>),
      Entry("Rdate", <<PartialDateTime(100, FALSE), Binary>>, <<>>),
      Entry("Summary", <<Text(<<"a">>), Text(<<"a">>)>>, <<Language>>),
      Entry("Class", <<Text(<<"a">>)>>, <<>>) }

\* The VTIMEZONE component that defines zone Z, ten seconds east of UTC,
\* whose clocks skip the local time 120 at the onset of the offset
TimezoneZ ==
    [component_type |-> "VTIMEZONE",
     entries |-> <<Entry("Tzid", <<Text(<<"Z">>)>>, <<>>),
                   Entry("Tzoffsetto", <<Integer(10)>>, <<>>),
                   Entry("Dtstart", <<PartialDateTime(120, TRUE)>>, <<>>)>>]

SeqsUpTo(S, n) == UNION {[1..k -> S] : k \in 0..n}

\* Properties of the components of the second scheduling kind
TodoEntries == {OrgLocal, UidA, AttRemote}

\* Components of at most n properties: VEVENTs over an alphabet of
\* properties, VTODOs, and the VTIMEZONE
ComponentsOver(alphabet, n) ==
    {[component_type |-> "VEVENT", entries |-> es] : es \in SeqsUpTo(alphabet, n)}
    \cup {[component_type |-> "VTODO", entries |-> es] : es \in SeqsUpTo(TodoEntries, n)}
    \cup {TimezoneZ}

\* Alphabets of the calendars extracted with either value of the caller's
\* flag, and of those extracted with the flag off
ParticipantAlphabets ==
    { OrganizerEntries, ParticipantEntries, AgentEntries, BlankUidEntries,
      ToleranceEntries, OrderEntries }

ContentAlphabets ==
    { IdentityEntries, ContentEntries, ZoneEntries, ZoneStartEntries,
      StampEntries }

\* The calendar `cal` has at most MaxComps components over an alphabet, which
\* share MaxEntries evenly
CalendarOver(cal, alphabet) ==
    \/ cal = [components |-> <<>>]
    \/ \E k \in 1..MaxComps :
          \E cs \in [1..k -> ComponentsOver(alphabet, MaxEntries \div k)] :
              cal = [components |-> cs]

\* The calendar `cal` is one of those extracted a second time with a
\* tolerated item added: its properties are all of ToleranceEntries
ToleranceCalendar(cal) ==
    \A i \in 1..Len(cal.components) :
        cal.components[i].component_type # "VTIMEZONE"
            => \A j \in 1..Len(cal.components[i].entries) :
                  cal.components[i].entries[j] \in ToleranceEntries

----------------------------------------------------------------------------
(* State of one extraction                                                 *)

VARIABLES
    ical,                         \* the parsed calendar (input)
    account_emails,               \* the account's address set (input)
    force_add_client_scheduling,  \* the caller's flag (input)
    pc,                           \* position of the walk
    comp_id,                      \* index of the current component (from 0)
    entry_id,                     \* index of the current property (from 0)
    organizer,                    \* Option<Organizer>
    uid,                          \* Option<&str>
    components,                   \* the map InstanceId -> ItipSnapshot
    expect_object_type,           \* Option<kind>
    has_local_emails,
    tz_resolver,                  \* Option<resolver>, built on first use
    sched_comp,                   \* the snapshot being folded
    instance_id,                  \* the key of the component being folded
    result,                       \* Option<Result<ItipSnapshots, ItipError>>
    baseline,                     \* the result of an earlier extraction, kept
                                  \* by the caller that extracts again
    rerun,                        \* how the calendar extracted again differs
    on_hold,                      \* Queue.on_hold: Vec<OnHold>
    next_wake_up,                 \* Queue.next_wake_up, in seconds
    clock,                        \* what now() returns, in seconds
    concurrent,                   \* the limiters' counters (atomics)
    loop_pc,                      \* position of the queue loop
    deadline,                     \* when the timeout of the pending recv fires
    held_event,                   \* the loop's local on_hold: Option<OnHold>
    now,                          \* the local now of process_events
    queue_events,                 \* what server.next_event() returned
    attempts,                     \* messages handed to a DeliveryAttempt in
                                  \* this iteration of the loop
    wake,                         \* what ended the last recv
    received,                     \* number of OnHold events received
    dns_rbl,                      \* server.inner.cache.dns_rbl: zone -> entry
    instant,                      \* the time, in seconds
    calls,                        \* the calls of is_dnsbl: position, zone,
                                  \* the resolver's reply, the value returned
    tags                          \* config.tags, as the tag it gives an address

dnsbl_vars == <<dns_rbl, instant, calls, tags>>

queue_vars ==
    <<on_hold, next_wake_up, clock, concurrent, loop_pc, deadline, held_event,
      now, queue_events, attempts, wake, received>>

\* The state of the other programs, which an extraction leaves alone
others == <<queue_vars, dnsbl_vars>>

vars ==
    <<ical, account_emails, force_add_client_scheduling, pc, comp_id, entry_id,
      organizer, uid, components, expect_object_type, has_local_emails,
      tz_resolver, sched_comp, instance_id, result, baseline, rerun, others>>

inputs == <<ical, account_emails, force_add_client_scheduling>>

Main == [tag |-> "Main"]
Recurrence(rid) == [tag |-> "Recurrence", rid |-> rid]

\* What the caller changed before it extracted again, and at which property
Rerun(why, at) == [why |-> why, at |-> at]
FirstRun == Rerun("first", <<0, 0>>)

Ok(v) == [ok |-> TRUE, value |-> v]
Err(e) == [ok |-> FALSE, error |-> e]

\* Properties of an event that names zone Z
ZonedEntries == { OrgLocal, UidA, RidTwoZoned, DtstartInGap }

\* The calendar `cal` is one event of fewer than MaxEntries properties and
\* the VTIMEZONE of zone Z, before or after it
ZonedCalendar(cal) ==
    \E es \in SeqsUpTo(ZonedEntries, MaxEntries - 1) :
        LET event == [component_type |-> "VEVENT", entries |-> es]
        IN  \/ cal = [components |-> <<event, TimezoneZ>>]
            \/ cal = [components |-> <<TimezoneZ, event>>]

\* ItipSnapshot { comp_id, attendees: Default, dtstamp: Default, ... }
NewSnapshot(id) ==
    [comp_id |-> id, attendees |-> <<>>, dtstamp |-> None, entries |-> {},
     sequence |-> None, request_status |-> <<>>]

----------------------------------------------------------------------------
(* The queue manager (crates/smtp/src/queue/manager.rs): its constants and *)
(* the state of a new queue.  Times are in seconds, the unit of now().     *)

\* Duration::from_millis(1): less than one second
SHORT_WAIT == 0
\* Duration::from_secs(86400 * 365)
LONG_WAIT == 86400 * 365

\* The concurrency limiters messages are held for
Limiters == {"l1", "l2"}

\* Queue::new, and the loop about to make its first recv
QueueNew ==
    /\ on_hold = <<>>
    /\ next_wake_up = SHORT_WAIT
    /\ clock = 0
    /\ loop_pc = "recv"
    /\ deadline = SHORT_WAIT
    /\ held_event = None
    /\ now = 0
    /\ queue_events = <<>>
    /\ attempts = {}
    /\ wake = "none"
    /\ received = 0

\* No limiter is in use
AllFree == [l \in Limiters |-> 0]

----------------------------------------------------------------------------
(* The DNSBL check (crates/spam-filter/src/modules/dnsbl.rs): its inputs   *)
(* and the state before any call                                           *)

\* Duration::from_secs(86400)
NEGATIVE_TTL == 86400

\* The zones config.zone evaluates to, and the callers of is_dnsbl
Zones == {"z1", "z2"}
Callers == {1, 2}

\* Ipv4Addr::BROADCAST, and the addresses the lists answer with
BROADCAST == "255.255.255.255"
Addresses == {"127.0.0.2", "127.0.0.4"}

\* A call that has not been made
Idle == [pc |-> "idle", zone |-> None, reply |-> None, value |-> None]

\* An absent cache entry
Absent == [present |-> FALSE]

\* config.tags: a tag for each address of a list, none for the broadcast
\* address
TagsOfListed == [ip \in Addresses \cup {BROADCAST} |->
                    IF ip = BROADCAST THEN None ELSE Some(ip)]

\* An empty cache, no call in progress
DnsblIdle ==
    /\ dns_rbl = [z \in Zones |-> Absent]
    /\ instant = 0
    /\ calls = [c \in Callers |-> Idle]

Init ==
    /\ QueueNew
    /\ concurrent = AllFree
    /\ DnsblIdle
    /\ tags = TagsOfListed
    /\ \/ /\ \E alphabet \in ParticipantAlphabets : CalendarOver(ical, alphabet)
          /\ force_add_client_scheduling \in BOOLEAN
       \/ /\ \/ \E alphabet \in ContentAlphabets : CalendarOver(ical, alphabet)
             \/ ZonedCalendar(ical)
          /\ force_add_client_scheduling = FALSE
    /\ account_emails = AccountEmails
    /\ pc = "start"
    /\ comp_id = 0
    /\ entry_id = 0
    /\ organizer = None
    /\ uid = None
    /\ components = {}
    /\ expect_object_type = None
    /\ has_local_emails = FALSE
    /\ tz_resolver = None
    /\ sched_comp = NewSnapshot(0)
    /\ instance_id = Main
    /\ result = None
    /\ baseline = None
    /\ rerun = FirstRun

----------------------------------------------------------------------------
(* Time-zone resolver (4.B) and the conversions of a partial date-time     *)

\* The zone a VTIMEZONE component defines, if it defines one
ZoneOf(comp) ==
    LET ids == {i \in 1..Len(comp.entries) :
                    /\ comp.entries[i].name = "Tzid"
                    /\ first_text(comp.entries[i]) # None}
        offs == {i \in 1..Len(comp.entries) :
                    /\ comp.entries[i].name = "Tzoffsetto"
                    /\ first(comp.entries[i].values) # None
                    /\ as_integer(Unwrap(first(comp.entries[i].values))) # None}
        onsets == {i \in 1..Len(comp.entries) :
                    /\ comp.entries[i].name = "Dtstart"
                    /\ first(comp.entries[i].values) # None
                    /\ as_partial_date_time(Unwrap(first(comp.entries[i].values))) # None}
    IN  IF comp.component_type # "VTIMEZONE" \/ ids = {} \/ offs = {}
        THEN {}
        ELSE LET i == CHOOSE i \in ids : \A j \in ids : i <= j
                 o == CHOOSE o \in offs : \A j \in offs : o <= j
             IN  {[id |-> Unwrap(first_text(comp.entries[i])),
                   offset |-> Unwrap(as_integer(Unwrap(first(comp.entries[o].values)))),
                   skipped |-> {Unwrap(first(comp.entries[k].values)).local :
                                   k \in onsets}]}

\* ICalendar::build_tz_resolver: the table of the zones the document defines
build_tz_resolver(cal) ==
    UNION {ZoneOf(cal.components[i]) : i \in 1..Len(cal.components)}

\* TzResolver::resolve: the zone's handle (its offset and the local times
\* its clocks skip); the floating handle when there is no tz-id or the id
\* is unknown
resolve(resolver, tz_id) ==
    IF tz_id # None /\ \E z \in resolver : z.id = Unwrap(tz_id)
    THEN LET z == CHOOSE z \in resolver : z.id = Unwrap(tz_id)
         IN  [offset |-> z.offset, skipped |-> z.skipped]
    ELSE [offset |-> 0, skipped |-> {}]

\* PartialDateTime::to_date_time_with_tz(..).map(|dt| dt.timestamp()): None
\* when the value lacks a field or its local time does not exist in the zone
to_date_time_with_tz(date, tz) ==
    IF date.complete /\ date.local \notin tz.skipped
    THEN Some(date.local - tz.offset)
    ELSE None

\* PartialDateTime::to_timestamp: the floating interpretation
to_timestamp(date) == IF date.complete THEN Some(date.local) ELSE None

\* Option<i64>::unwrap_or_default
unwrap_or_default(opt) == IF opt = None THEN 0 ELSE Unwrap(opt)

\* Mutant: the table is built from the components the walk has come to
get_or_insert_resolver_SeenSoFar(current, cal) ==
    IF current = None
    THEN Some(UNION {ZoneOf(cal.components[i]) : i \in 1..(comp_id + 1)})
    ELSE current

\* tz_resolver.get_or_insert_with(|| ical.build_tz_resolver())
get_or_insert_resolver(current, cal) ==
    IF current = None THEN Some(build_tz_resolver(cal)) ELSE current

\* Mutant: the floating fallback is left out, and a failed conversion
\* gives the default
Timestamp_NoFallback(date, resolver, tz_id) ==
    unwrap_or_default(to_date_time_with_tz(date, resolve(resolver, tz_id)))

\* date.to_date_time_with_tz(resolver.resolve(tz_id)).map(timestamp)
\*     .unwrap_or_else(|| date.to_timestamp().unwrap_or_default())
Timestamp(date, resolver, tz_id) ==
    LET zoned == to_date_time_with_tz(date, resolve(resolver, tz_id))
    IN  IF zoned # None THEN Unwrap(zoned) ELSE unwrap_or_default(to_timestamp(date))

----------------------------------------------------------------------------
(* The walk: precondition                                                  *)

NumComps == Len(ical.components)
CurComp == ical.components[comp_id + 1]
NumEntries == Len(CurComp.entries)
CurEntry == CurComp.entries[entry_id + 1]

\* return Err(e)
Fail(e) ==
    /\ result' = Some(Err(e))
    /\ pc' = "done"

\* Mutant: an ATTENDEE property satisfies the precondition too
HasOrganizerEntry_AnyParticipant(comp) ==
    \E i \in 1..Len(comp.entries) : comp.entries[i].name \in {"Organizer", "Attendee"}

\* comp.entries.iter().any(|e| matches!(e.name, ICalendarProperty::Organizer))
HasOrganizerEntry(comp) ==
    \E i \in 1..Len(comp.entries) : comp.entries[i].name = "Organizer"

\* Mutant: the precondition forgets to ask for an ORGANIZER
HasSchedulingInfo_AnyScheduling(cal) ==
    \E i \in 1..Len(cal.components) :
        is_scheduling_object(cal.components[i].component_type)

\* The condition of the precondition check
HasSchedulingInfo(cal) ==
    \E i \in 1..Len(cal.components) :
        /\ is_scheduling_object(cal.components[i].component_type)
        /\ HasOrganizerEntry(cal.components[i])

PrecheckFails ==
    /\ pc = "start"
    /\ ~HasSchedulingInfo(ical)
    /\ Fail("NoSchedulingInfo")
    /\ UNCHANGED <<others, inputs, baseline, rerun, comp_id, entry_id, organizer, uid, components,
                   expect_object_type, has_local_emails, tz_resolver,
                   sched_comp, instance_id>>

PrecheckPasses ==
    /\ pc = "start"
    /\ HasSchedulingInfo(ical)
    /\ pc' = "component"
    /\ UNCHANGED <<others, inputs, baseline, rerun, comp_id, entry_id, organizer, uid, components,
                   expect_object_type, has_local_emails, tz_resolver,
                   sched_comp, instance_id, result>>

----------------------------------------------------------------------------
(* The walk: one component                                                 *)

\* Mutant: the kind is compared with itself, so it never differs
KindDiffers_SelfCompare(expected, kind) == expected # None /\ kind # kind

\* Some(expected) if expected != &comp.component_type
KindDiffers(expected, kind) == expected # None /\ Unwrap(expected) # kind

SkipComponent ==
    /\ pc = "component"
    /\ comp_id < NumComps
    /\ ~is_scheduling_object(CurComp.component_type)
    /\ comp_id' = comp_id + 1
    /\ UNCHANGED <<others, inputs, baseline, rerun, pc, entry_id, organizer, uid, components,
                   expect_object_type, has_local_emails, tz_resolver,
                   sched_comp, instance_id, result>>

KindMismatch ==
    /\ pc = "component"
    /\ comp_id < NumComps
    /\ is_scheduling_object(CurComp.component_type)
    /\ KindDiffers(expect_object_type, CurComp.component_type)
    /\ Fail("MultipleObjectTypes")
    /\ UNCHANGED <<others, inputs, baseline, rerun, comp_id, entry_id, organizer, uid, components,
                   expect_object_type, has_local_emails, tz_resolver,
                   sched_comp, instance_id>>

BeginComponent ==
    /\ pc = "component"
    /\ comp_id < NumComps
    /\ is_scheduling_object(CurComp.component_type)
    /\ ~KindDiffers(expect_object_type, CurComp.component_type)
    /\ expect_object_type' = Some(CurComp.component_type)
    /\ sched_comp' = NewSnapshot(comp_id)
    /\ instance_id' = Main
    /\ entry_id' = 0
    /\ pc' = "entry"
    /\ UNCHANGED <<others, inputs, baseline, rerun, comp_id, organizer, uid, components,
                   has_local_emails, tz_resolver, result>>

\* InstanceId equality: Main equals Main; two recurrences are equal when
\* their date and this_and_future agree (entry_id takes no part)
InstanceIdEq(a, b) ==
    /\ a.tag = b.tag
    /\ a.tag = "Recurrence" =>
          /\ a.rid.date = b.rid.date
          /\ a.rid.this_and_future = b.rid.this_and_future

\* Mutant: keys are compared field by field, entry_id included
KeyPresent_ExactKey(map, key) == \E e \in map : e.key = key

\* components.insert(instance_id, sched_comp).is_some()
KeyPresent(map, key) == \E e \in map : InstanceIdEq(e.key, key)

\* Mutant: the value insert returns is dropped, so a component whose key is
\* present replaces the one stored under it
InsertFails_Overwrite ==
    /\ pc = "entry"
    /\ entry_id = NumEntries
    /\ KeyPresent(components, instance_id)
    /\ components' = {e \in components : ~InstanceIdEq(e.key, instance_id)}
                        \cup {[key |-> instance_id, snap |-> sched_comp]}
    /\ comp_id' = comp_id + 1
    /\ pc' = "component"
    /\ UNCHANGED <<others, inputs, baseline, rerun, entry_id, organizer, uid, expect_object_type,
                   has_local_emails, tz_resolver, sched_comp, instance_id,
                   result>>

InsertFails ==
    /\ pc = "entry"
    /\ entry_id = NumEntries
    /\ KeyPresent(components, instance_id)
    /\ Fail("MultipleObjectInstances")
    /\ UNCHANGED <<others, inputs, baseline, rerun, comp_id, entry_id, organizer, uid, components,
                   expect_object_type, has_local_emails, tz_resolver,
                   sched_comp, instance_id>>

InsertComponent ==
    /\ pc = "entry"
    /\ entry_id = NumEntries
    /\ ~KeyPresent(components, instance_id)
    /\ components' = components \cup {[key |-> instance_id, snap |-> sched_comp]}
    /\ comp_id' = comp_id + 1
    /\ pc' = "component"
    /\ UNCHANGED <<others, inputs, baseline, rerun, entry_id, organizer, uid, expect_object_type,
                   has_local_emails, tz_resolver, sched_comp, instance_id,
                   result>>

----------------------------------------------------------------------------
(* The walk: one property of the current component                         *)

AtEntry(name) ==
    /\ pc = "entry"
    /\ entry_id < NumEntries
    /\ CurEntry.name = name

\* the match arm falls through to the next property
NextEntry ==
    /\ entry_id' = entry_id + 1
    /\ pc' = "entry"

\* entry.values.first().and_then(as_text).and_then(|v| Email::new(v, ..))
EntryEmail(entry, accounts) ==
    IF first_text(entry) = None THEN None
    ELSE EmailNew(Unwrap(first_text(entry)), accounts)

RECURSIVE OrganizerParams(_, _)
\* for param in &entry.params { match param { ScheduleAgent, ScheduleForceSend } }
OrganizerParams(part, params) ==
    IF params = <<>> THEN part
    ELSE LET p == Head(params)
             next == CASE p.p = "ScheduleAgent" ->
                            [part EXCEPT !.is_server_scheduling = (p.v = "SERVER")]
                       [] p.p = "ScheduleForceSend" ->
                            [part EXCEPT !.force_send = Some(p.v)]
                       [] OTHER -> part
         IN  OrganizerParams(next, Tail(params))

\* The Organizer built from an ORGANIZER property with a parsable address
BuildOrganizer(id, email, params) ==
    OrganizerParams([entry_id |-> id, email |-> email,
                     is_server_scheduling |-> TRUE, force_send |-> None],
                    params)

\* Mutant: the caller's flag is not consulted
OtherAgent_IgnoresFlag(part, force) == ~part.is_server_scheduling

\* if !part.is_server_scheduling && !force_add_client_scheduling
OtherAgent(part, force) == ~part.is_server_scheduling /\ ~force

\* Some(existing_organizer) if existing_organizer.email.email != part.email.email
OrganizerConflict(existing, part) ==
    existing # None /\ Unwrap(existing).email.email # part.email.email

\* Mutant: a later ORGANIZER of the same address replaces the first
KeepOrganizer_LastWins(existing, part) == Some(part)

\* None => organizer = Some(part); an organizer already set is kept
KeepOrganizer(existing, part) == IF existing = None THEN Some(part) ELSE existing

\* Mutant: the address is compared with the organizer's before the
\* scheduling agent is looked at
OrganizerEntry_ConflictFirst ==
    /\ AtEntry("Organizer")
    /\ LET email == EntryEmail(CurEntry, account_emails)
       IN  IF email = None
           THEN /\ NextEntry
                /\ UNCHANGED <<organizer, has_local_emails, result>>
           ELSE LET part == BuildOrganizer(entry_id, Unwrap(email), CurEntry.params)
                IN  /\ has_local_emails' = (has_local_emails \/ part.email.is_local)
                    /\ IF OrganizerConflict(organizer, part)
                       THEN /\ Fail("MultipleOrganizer")
                            /\ UNCHANGED <<organizer, entry_id>>
                       ELSE IF OtherAgent(part, force_add_client_scheduling)
                       THEN /\ Fail("OtherSchedulingAgent")
                            /\ UNCHANGED <<organizer, entry_id>>
                       ELSE /\ organizer' = KeepOrganizer(organizer, part)
                            /\ NextEntry
                            /\ UNCHANGED result
    /\ UNCHANGED <<others, inputs, baseline, rerun, comp_id, uid, components, expect_object_type,
                   tz_resolver, sched_comp, instance_id>>

OrganizerEntry ==
    /\ AtEntry("Organizer")
    /\ LET email == EntryEmail(CurEntry, account_emails)
       IN  IF email = None
           THEN /\ NextEntry
                /\ UNCHANGED <<organizer, has_local_emails, result>>
           ELSE LET part == BuildOrganizer(entry_id, Unwrap(email), CurEntry.params)
                IN  /\ has_local_emails' = (has_local_emails \/ part.email.is_local)
                    /\ IF OtherAgent(part, force_add_client_scheduling)
                       THEN /\ Fail("OtherSchedulingAgent")
                            /\ UNCHANGED <<organizer, entry_id>>
                       ELSE IF OrganizerConflict(organizer, part)
                       THEN /\ Fail("MultipleOrganizer")
                            /\ UNCHANGED <<organizer, entry_id>>
                       ELSE /\ organizer' = KeepOrganizer(organizer, part)
                            /\ NextEntry
                            /\ UNCHANGED result
    /\ UNCHANGED <<others, inputs, baseline, rerun, comp_id, uid, components, expect_object_type,
                   tz_resolver, sched_comp, instance_id>>

\* Email::from_uri: the address of a calendar URI of Email form
EmailFromUri(uri, accounts) ==
    IF uri.u = "Email" THEN EmailNew(uri.v, accounts) ELSE None

RECURSIVE FilterMapEmails(_, _)
\* value.iter().filter_map(|uri| Email::from_uri(uri, account_emails)).collect()
FilterMapEmails(uris, accounts) ==
    IF uris = <<>> THEN <<>>
    ELSE EmailFromUri(Head(uris), accounts) \o FilterMapEmails(Tail(uris), accounts)

RECURSIVE AttendeeParams_ClientOnly(_, _, _)
\* Mutant: the agent is compared with Client, and any other agent leaves
\* the attendee server-scheduled
AttendeeParams_ClientOnly(part, params, accounts) ==
    IF params = <<>> THEN part
    ELSE LET p == Head(params)
             next ==
               CASE p.p = "ScheduleAgent" ->
                      [part EXCEPT !.is_server_scheduling = (p.v # "CLIENT")]
                 [] p.p = "Rsvp" -> [part EXCEPT !.rsvp = Some(p.v)]
                 [] p.p = "ScheduleForceSend" -> [part EXCEPT !.force_send = Some(p.v)]
                 [] p.p = "Partstat" -> [part EXCEPT !.part_stat = Some(p.v)]
                 [] p.p = "Cutype" -> [part EXCEPT !.cu_type = Some(p.v)]
                 [] p.p = "DelegatedFrom" ->
                      [part EXCEPT !.delegated_from = FilterMapEmails(p.v, accounts)]
                 [] p.p = "DelegatedTo" ->
                      [part EXCEPT !.delegated_to = FilterMapEmails(p.v, accounts)]
                 [] p.p = "Role" -> [part EXCEPT !.role = Some(p.v)]
                 [] p.p = "SentBy" -> [part EXCEPT !.sent_by = EmailFromUri(p.v, accounts)]
                 [] OTHER -> part
         IN  AttendeeParams_ClientOnly(next, Tail(params), accounts)

RECURSIVE AttendeeParams_StopsAtAgent(_, _, _)
\* Mutant: the loop ends at the SCHEDULE-AGENT parameter, and the parameters
\* after it are not read
AttendeeParams_StopsAtAgent(part, params, accounts) ==
    IF params = <<>> THEN part
    ELSE LET p == Head(params)
             next ==
               CASE p.p = "ScheduleAgent" ->
                      [part EXCEPT !.is_server_scheduling = (p.v = "SERVER")]
                 [] p.p = "Rsvp" -> [part EXCEPT !.rsvp = Some(p.v)]
                 [] p.p = "ScheduleForceSend" -> [part EXCEPT !.force_send = Some(p.v)]
                 [] p.p = "Partstat" -> [part EXCEPT !.part_stat = Some(p.v)]
                 [] p.p = "Cutype" -> [part EXCEPT !.cu_type = Some(p.v)]
                 [] p.p = "DelegatedFrom" ->
                      [part EXCEPT !.delegated_from = FilterMapEmails(p.v, accounts)]
                 [] p.p = "DelegatedTo" ->
                      [part EXCEPT !.delegated_to = FilterMapEmails(p.v, accounts)]
                 [] p.p = "Role" -> [part EXCEPT !.role = Some(p.v)]
                 [] p.p = "SentBy" -> [part EXCEPT !.sent_by = EmailFromUri(p.v, accounts)]
                 [] OTHER -> part
         IN  IF p.p = "ScheduleAgent" THEN next
             ELSE AttendeeParams_StopsAtAgent(next, Tail(params), accounts)

RECURSIVE AttendeeParams(_, _, _)
\* for param in &entry.params { match param { ... } }
AttendeeParams(part, params, accounts) ==
    IF params = <<>> THEN part
    ELSE LET p == Head(params)
             next ==
               CASE p.p = "ScheduleAgent" ->
                      [part EXCEPT !.is_server_scheduling = (p.v = "SERVER")]
                 [] p.p = "Rsvp" -> [part EXCEPT !.rsvp = Some(p.v)]
                 [] p.p = "ScheduleForceSend" -> [part EXCEPT !.force_send = Some(p.v)]
                 [] p.p = "Partstat" -> [part EXCEPT !.part_stat = Some(p.v)]
                 [] p.p = "Cutype" -> [part EXCEPT !.cu_type = Some(p.v)]
                 [] p.p = "DelegatedFrom" ->
                      [part EXCEPT !.delegated_from = FilterMapEmails(p.v, accounts)]
                 [] p.p = "DelegatedTo" ->
                      [part EXCEPT !.delegated_to = FilterMapEmails(p.v, accounts)]
                 [] p.p = "Role" -> [part EXCEPT !.role = Some(p.v)]
                 [] p.p = "SentBy" -> [part EXCEPT !.sent_by = EmailFromUri(p.v, accounts)]
                 [] OTHER -> part
         IN  AttendeeParams(next, Tail(params), accounts)

\* The Attendee built from an ATTENDEE property with a parsable address
BuildAttendee(id, email, params, accounts) ==
    AttendeeParams([entry_id |-> id, email |-> email, rsvp |-> None,
                    is_server_scheduling |-> TRUE, force_send |-> None,
                    part_stat |-> None, delegated_from |-> <<>>,
                    delegated_to |-> <<>>, cu_type |-> None, role |-> None,
                    sent_by |-> None],
                   params, accounts)

\* Mutant: the caller's flag is left out of the condition
AttendeeCountsAsLocal_ServerOnly(part, force) ==
    part.email.is_local /\ part.is_server_scheduling

\* Mutant: every local attendee counts, whoever schedules it
AttendeeCountsAsLocal_Ungated(part, force) == part.email.is_local

\* part.email.is_local && (force_add_client_scheduling || part.is_server_scheduling)
AttendeeCountsAsLocal(part, force) ==
    part.email.is_local /\ (force \/ part.is_server_scheduling)

\* sched_comp.attendees.insert(part): a set with identity email.email; an
\* insert of an address already present changes nothing
InsertAttendee(attendees, part) ==
    IF \E i \in 1..Len(attendees) : attendees[i].email.email = part.email.email
    THEN attendees
    ELSE Append(attendees, part)

AttendeeEntry ==
    /\ AtEntry("Attendee")
    /\ LET email == EntryEmail(CurEntry, account_emails)
       IN  IF email = None
           THEN UNCHANGED <<has_local_emails, sched_comp>>
           ELSE LET part == BuildAttendee(entry_id, Unwrap(email), CurEntry.params,
                                          account_emails)
                IN  /\ has_local_emails' =
                          (has_local_emails
                              \/ AttendeeCountsAsLocal(part, force_add_client_scheduling))
                    /\ sched_comp' =
                          [sched_comp EXCEPT !.attendees = InsertAttendee(@, part)]
    /\ NextEntry
    /\ UNCHANGED <<others, inputs, baseline, rerun, comp_id, organizer, uid, components,
                   expect_object_type, tz_resolver, instance_id, result>>

\* Mutant: an empty trimmed UID is not filtered out
ParseUid_KeepsBlank(entry) ==
    IF first_text(entry) = None THEN None
    ELSE Some(Trim(Unwrap(first_text(entry))))

\* Mutant: the UID is taken without trimming
ParseUid_NoTrim(entry) ==
    IF first_text(entry) = None THEN None
    ELSE IF Unwrap(first_text(entry)) = <<>> THEN None
    ELSE first_text(entry)

\* entry.values.first().and_then(as_text).map(trim).filter(|v| !v.is_empty())
ParseUid(entry) ==
    IF first_text(entry) = None THEN None
    ELSE IF Trim(Unwrap(first_text(entry))) = <<>> THEN None
    ELSE Some(Trim(Unwrap(first_text(entry))))

\* Mutant: a second UID is never compared with the first
UidConflict_Never(existing, new) == existing # None /\ existing = None

\* Some(existing_uid) if existing_uid != uid_
UidConflict(existing, new) == existing # None /\ Unwrap(existing) # new

\* None => uid = Some(uid_); a UID already set is kept
KeepUid(existing, new) == IF existing = None THEN Some(new) ELSE existing

UidEntry ==
    /\ AtEntry("Uid")
    /\ LET uid_ == ParseUid(CurEntry)
       IN  IF uid_ = None
           THEN /\ NextEntry
                /\ UNCHANGED <<uid, result>>
           ELSE IF UidConflict(uid, Unwrap(uid_))
           THEN /\ Fail("MultipleUid")
                /\ UNCHANGED <<uid, entry_id>>
           ELSE /\ uid' = KeepUid(uid, Unwrap(uid_))
                /\ NextEntry
                /\ UNCHANGED result
    /\ UNCHANGED <<others, inputs, baseline, rerun, comp_id, organizer, components, expect_object_type,
                   has_local_emails, tz_resolver, sched_comp, instance_id>>

SequenceEntry ==
    /\ AtEntry("Sequence")
    /\ LET v == first(CurEntry.values)
           sequence == IF v = None THEN None ELSE as_integer(Unwrap(v))
       IN  sched_comp' = IF sequence = None THEN sched_comp
                         ELSE [sched_comp EXCEPT !.sequence = sequence]
    /\ NextEntry
    /\ UNCHANGED <<others, inputs, baseline, rerun, comp_id, organizer, uid, components,
                   expect_object_type, has_local_emails, tz_resolver,
                   instance_id, result>>

\* entry.values.first().and_then(|v| v.as_partial_date_time())
first_date(entry) ==
    IF first(entry.values) = None THEN None
    ELSE as_partial_date_time(Unwrap(first(entry.values)))

RECURSIVE RecurrenceParams(_, _)
\* for param in &entry.params { match param { Tzid(id), Range } }
RecurrenceParams(acc, params) ==
    IF params = <<>> THEN acc
    ELSE LET p == Head(params)
             next == CASE p.p = "Tzid" -> [acc EXCEPT !.tz_id = Some(p.v)]
                       [] p.p = "Range" -> [acc EXCEPT !.this_and_future = TRUE]
                       [] OTHER -> acc
         IN  RecurrenceParams(next, Tail(params))

\* InstanceId::Recurrence(RecurrenceId { entry_id, date, this_and_future })
BuildRecurrence(id, date, params, resolver) ==
    LET ps == RecurrenceParams([this_and_future |-> FALSE, tz_id |-> None], params)
    IN  Recurrence([entry_id |-> id,
                    date |-> Timestamp(date, resolver, ps.tz_id),
                    this_and_future |-> ps.this_and_future])

\* Mutant: a RECURRENCE-ID that follows another one in the component is
\* ignored
RecurrenceIdEntry_FirstWins ==
    /\ AtEntry("RecurrenceId")
    /\ LET date == first_date(CurEntry)
       IN  IF date = None \/ instance_id # Main
           THEN UNCHANGED <<tz_resolver, instance_id>>
           ELSE /\ tz_resolver' = get_or_insert_resolver(tz_resolver, ical)
                /\ instance_id' =
                      BuildRecurrence(entry_id, Unwrap(date), CurEntry.params,
                                      Unwrap(get_or_insert_resolver(tz_resolver, ical)))
    /\ NextEntry
    /\ UNCHANGED <<others, inputs, baseline, rerun, comp_id, organizer, uid, components,
                   expect_object_type, has_local_emails, sched_comp, result>>

RecurrenceIdEntry ==
    /\ AtEntry("RecurrenceId")
    /\ LET date == first_date(CurEntry)
       IN  IF date = None
           THEN UNCHANGED <<tz_resolver, instance_id>>
           ELSE /\ tz_resolver' = get_or_insert_resolver(tz_resolver, ical)
                /\ instance_id' =
                      BuildRecurrence(entry_id, Unwrap(date), CurEntry.params,
                                      Unwrap(get_or_insert_resolver(tz_resolver, ical)))
    /\ NextEntry
    /\ UNCHANGED <<others, inputs, baseline, rerun, comp_id, organizer, uid, components,
                   expect_object_type, has_local_emails, sched_comp, result>>

RequestStatusEntry ==
    /\ AtEntry("RequestStatus")
    /\ sched_comp' = IF first_text(CurEntry) = None THEN sched_comp
                     ELSE [sched_comp EXCEPT
                              !.request_status = Append(@, Unwrap(first_text(CurEntry)))]
    /\ NextEntry
    /\ UNCHANGED <<others, inputs, baseline, rerun, comp_id, organizer, uid, components,
                   expect_object_type, has_local_emails, tz_resolver,
                   instance_id, result>>

\* Mutant: a time stamp already set is kept
DtstampEntry_FirstWins ==
    /\ AtEntry("Dtstamp")
    /\ sched_comp' = IF sched_comp.dtstamp # None THEN sched_comp
                     ELSE [sched_comp EXCEPT !.dtstamp = first_date(CurEntry)]
    /\ NextEntry
    /\ UNCHANGED <<others, inputs, baseline, rerun, comp_id, organizer, uid, components,
                   expect_object_type, has_local_emails, tz_resolver,
                   instance_id, result>>

DtstampEntry ==
    /\ AtEntry("Dtstamp")
    /\ sched_comp' = [sched_comp EXCEPT !.dtstamp = first_date(CurEntry)]
    /\ NextEntry
    /\ UNCHANGED <<others, inputs, baseline, rerun, comp_id, organizer, uid, components,
                   expect_object_type, has_local_emails, tz_resolver,
                   instance_id, result>>

\* The properties whose values are projected into snapshot.entries
ProjectedProperties ==
    {"Dtstart", "Dtend", "Duration", "Due", "Rrule", "Rdate", "Exdate", "Status",
     "Location", "Summary", "Description", "Priority", "PercentComplete",
     "Completed"}

RECURSIVE entry_tz_id(_)
\* ICalendarEntry::tz_id: the TZID parameter of the property, if any
entry_tz_id(params) ==
    IF params = <<>> THEN None
    ELSE IF Head(params).p = "Tzid" THEN Some(Head(params).v)
    ELSE entry_tz_id(Tail(params))

\* Mutant: the arm that skips the other values is missing
Projectable_Everything(value) == TRUE

\* The values that have a projection into ItipEntryValue
Projectable(value) ==
    \/ value.t \in {"PartialDateTime", "Duration", "RecurrenceRule", "Period",
                    "Integer", "Text", "Status"}
    \/ value.t = "Uri" /\ value.u = "Location"

\* The projection of one value (4.C)
ProjectValue(value, tz_id, resolver) ==
    CASE value.t = "Uri" -> [t |-> "Text", v |-> value.v]
      [] value.t = "PartialDateTime" ->
            [t |-> "DateTime", date |-> value, tz_id |-> tz_id,
             timestamp |-> Timestamp(value, Unwrap(resolver), tz_id)]
      [] value.t = "RecurrenceRule" -> [t |-> "RRule", v |-> value.v]
      [] OTHER -> value

RECURSIVE ProjectValues(_, _, _, _)
\* for value in &entry.values { ...; sched_comp.entries.insert(..) }: the
\* pair <<entries, resolver>> after the loop
ProjectValues(acc, name, values, tz_id) ==
    IF values = <<>> THEN acc
    ELSE LET value == Head(values)
             resolver == IF value.t = "PartialDateTime"
                         THEN get_or_insert_resolver(acc[2], ical)
                         ELSE acc[2]
             next == IF Projectable(value)
                     THEN <<acc[1] \cup {[name |-> name,
                                          value |-> ProjectValue(value, tz_id, resolver)]},
                            resolver>>
                     ELSE acc
         IN  ProjectValues(next, name, Tail(values), tz_id)

ValueEntry ==
    /\ pc = "entry"
    /\ entry_id < NumEntries
    /\ CurEntry.name \in ProjectedProperties
    /\ LET after == ProjectValues(<<sched_comp.entries, tz_resolver>>, CurEntry.name,
                                  CurEntry.values, entry_tz_id(CurEntry.params))
       IN  /\ sched_comp' = [sched_comp EXCEPT !.entries = after[1]]
           /\ tz_resolver' = after[2]
    /\ NextEntry
    /\ UNCHANGED <<others, inputs, baseline, rerun, comp_id, organizer, uid, components,
                   expect_object_type, has_local_emails, instance_id, result>>

\* The properties the walk has a match arm for
HandledProperties ==
    {"Organizer", "Attendee", "Uid", "Sequence", "RecurrenceId", "RequestStatus",
     "Dtstamp"} \cup ProjectedProperties

\* _ => {}
OtherEntry ==
    /\ pc = "entry"
    /\ entry_id < NumEntries
    /\ CurEntry.name \notin HandledProperties
    /\ NextEntry
    /\ UNCHANGED <<others, inputs, baseline, rerun, comp_id, organizer, uid, components,
                   expect_object_type, has_local_emails, tz_resolver,
                   sched_comp, instance_id, result>>

----------------------------------------------------------------------------
(* The walk: the final checks                                              *)

\* Mutant: the local-address check is left out
FinalResult_NoLocalCheck(local, org, id, comps) ==
    IF org = None THEN Err("NoSchedulingInfo")
    ELSE IF id = None THEN Err("MissingUid")
    ELSE Ok([organizer |-> Unwrap(org), uid |-> Unwrap(id), components |-> comps])

\* Mutant: the UID is checked before the organizer
FinalResult_UidFirst(local, org, id, comps) ==
    IF ~local THEN Err("NotOrganizerNorAttendee")
    ELSE IF id = None THEN Err("MissingUid")
    ELSE IF org = None THEN Err("NoSchedulingInfo")
    ELSE Ok([organizer |-> Unwrap(org), uid |-> Unwrap(id), components |-> comps])

\* if has_local_emails { Ok(ItipSnapshots { organizer: organizer.ok_or(..)?,
\*   uid: uid.ok_or(..)?, components }) } else { Err(NotOrganizerNorAttendee) }
FinalResult(local, org, id, comps) ==
    IF ~local THEN Err("NotOrganizerNorAttendee")
    ELSE IF org = None THEN Err("NoSchedulingInfo")
    ELSE IF id = None THEN Err("MissingUid")
    ELSE Ok([organizer |-> Unwrap(org), uid |-> Unwrap(id), components |-> comps])

Finish ==
    /\ pc = "component"
    /\ comp_id = NumComps
    /\ result' = Some(FinalResult(has_local_emails, organizer, uid, components))
    /\ pc' = "done"
    /\ UNCHANGED <<others, inputs, baseline, rerun, comp_id, entry_id, organizer, uid, components,
                   expect_object_type, has_local_emails, tz_resolver,
                   sched_comp, instance_id>>

----------------------------------------------------------------------------
(* ItipSnapshot::attendee_by_email                                         *)

\* Mutant: the closure does not compare the address
attendee_by_email_AnyAttendee(snapshot, email) ==
    IF snapshot.attendees = <<>> THEN None ELSE Some(snapshot.attendees[1])

\* self.attendees.iter().find(|attendee| attendee.email.email == email)
attendee_by_email(snapshot, email) ==
    LET hits == {k \in 1..Len(snapshot.attendees) :
                    snapshot.attendees[k].email.email = email}
    IN  IF hits = {} THEN None
        ELSE Some(snapshot.attendees[CHOOSE k \in hits : \A j \in hits : k <= j])

----------------------------------------------------------------------------
(* A second extraction: the caller extracts an accepted calendar again     *)
(* after one item the extractor tolerates was added to it                  *)

\* The sequence with x put at position k (from 1)
InsertAt(seq, k, x) == SubSeq(seq, 1, k - 1) \o <<x>> \o SubSeq(seq, k, Len(seq))

\* The calendars that are cal with one more ATTENDEE that parses to no
\* email, in a scheduling component that has room for it
WithBrokenAttendee(cal) ==
    {[cal EXCEPT !.components[c].entries = InsertAt(@, k, e)] :
        <<c, k, e>> \in
            {t \in (1..Len(cal.components)) \X (1..MaxEntries) \X {AttBroken, AttNoValue} :
                /\ is_scheduling_object(cal.components[t[1]].component_type)
                /\ Len(cal.components[t[1]].entries) < MaxEntries
                /\ t[2] <= Len(cal.components[t[1]].entries) + 1}}

\* The calendars that are cal with one more parameter, which no match arm
\* names, on a property of a scheduling component
WithUnknownParameter(cal) ==
    {[cal EXCEPT !.components[c].entries[p].params = InsertAt(@, k, Language)] :
        <<c, p, k>> \in
            {t \in (1..Len(cal.components)) \X (1..MaxEntries) \X (1..MaxEntries) :
                /\ is_scheduling_object(cal.components[t[1]].component_type)
                /\ t[2] <= Len(cal.components[t[1]].entries)
                /\ t[3] <= Len(cal.components[t[1]].entries[t[2]].params) + 1}}

\* The calendars that are cal with one more value, which has no projection,
\* in a projected property of a scheduling component
WithUnprojectableValue(cal) ==
    {[cal EXCEPT !.components[c].entries[p].values = InsertAt(@, k, Binary)] :
        <<c, p, k>> \in
            {t \in (1..Len(cal.components)) \X (1..MaxEntries) \X (1..MaxEntries) :
                /\ is_scheduling_object(cal.components[t[1]].component_type)
                /\ t[2] <= Len(cal.components[t[1]].entries)
                /\ cal.components[t[1]].entries[t[2]].name \in ProjectedProperties
                /\ t[3] <= Len(cal.components[t[1]].entries[t[2]].values) + 1}}

\* itip_snapshot(ical + one tolerated item, account_emails, force): the walk
\* starts again on the new calendar, and the caller keeps the first result
AddTolerated ==
    /\ pc = "done"
    /\ result # None /\ Unwrap(result).ok
    /\ baseline = None
    /\ ToleranceCalendar(ical)
    /\ baseline' = result
    /\ rerun' = Rerun("tolerated", <<0, 0>>)
    /\ ical' \in WithBrokenAttendee(ical) \cup WithUnknownParameter(ical)
                    \cup WithUnprojectableValue(ical)
    /\ pc' = "start"
    /\ comp_id' = 0
    /\ entry_id' = 0
    /\ organizer' = None
    /\ uid' = None
    /\ components' = {}
    /\ expect_object_type' = None
    /\ has_local_emails' = FALSE
    /\ tz_resolver' = None
    /\ sched_comp' = NewSnapshot(0)
    /\ instance_id' = Main
    /\ result' = None
    /\ UNCHANGED <<others, account_emails, force_add_client_scheduling>>

\* The locals of a call as lines 32-36 declare them; the caller keeps the
\* result of the call before
Restart ==
    /\ baseline' = result
    /\ pc' = "start"
    /\ comp_id' = 0
    /\ entry_id' = 0
    /\ organizer' = None
    /\ uid' = None
    /\ components' = {}
    /\ expect_object_type' = None
    /\ has_local_emails' = FALSE
    /\ sched_comp' = NewSnapshot(0)
    /\ instance_id' = Main
    /\ result' = None
    /\ UNCHANGED <<others, account_emails, force_add_client_scheduling>>

\* The calendar `cal` has the properties of an alphabet only
CalendarWithin(cal, alphabet) ==
    \A i \in 1..Len(cal.components) :
        cal.components[i].component_type # "VTIMEZONE"
            => \A j \in 1..Len(cal.components[i].entries) :
                  cal.components[i].entries[j] \in alphabet \cup TodoEntries

\* The orders, other than the given one, of a list of n parameters
Reorderings(n) == {f \in Permutations(1..n) : \E k \in 1..n : f[k] # k}

\* itip_snapshot(ical with the parameters of one ORGANIZER, ATTENDEE or
\* RECURRENCE-ID in another order, account_emails, force)
PermuteParameters ==
    /\ pc = "done"
    /\ result # None
    /\ rerun = FirstRun
    /\ CalendarWithin(ical, OrderEntries)
    /\ \E c \in 1..Len(ical.components), p \in 1..MaxEntries :
          /\ is_scheduling_object(ical.components[c].component_type)
          /\ p <= Len(ical.components[c].entries)
          /\ ical.components[c].entries[p].name
                \in {"Organizer", "Attendee", "RecurrenceId"}
          /\ \E f \in Reorderings(Len(ical.components[c].entries[p].params)) :
                ical' = [ical EXCEPT !.components[c].entries[p].params =
                                        [k \in 1..Len(@) |-> @[f[k]]]]
          /\ rerun' = Rerun("permuted", <<c, p>>)
    /\ tz_resolver' = None
    /\ Restart

\* The sequence without its element at position k (from 1)
RemoveAt(seq, k) == SubSeq(seq, 1, k - 1) \o SubSeq(seq, k + 1, Len(seq))

\* itip_snapshot(ical without one ORGANIZER property whose first value
\* parses to no email, account_emails, force)
RemoveBrokenOrganizer ==
    /\ pc = "done"
    /\ result # None
    /\ rerun = FirstRun
    /\ CalendarWithin(ical, OrganizerEntries)
    /\ \E c \in 1..Len(ical.components), p \in 1..MaxEntries :
          /\ is_scheduling_object(ical.components[c].component_type)
          /\ p <= Len(ical.components[c].entries)
          /\ ical.components[c].entries[p].name = "Organizer"
          /\ EntryEmail(ical.components[c].entries[p], account_emails) = None
          /\ ical' = [ical EXCEPT !.components[c].entries = RemoveAt(@, p)]
          /\ rerun' = Rerun("stripped", <<c, p>>)
    /\ tz_resolver' = None
    /\ Restart

\* The variant of itip_snapshot that starts from
\* tz_resolver = Some(ical.build_tz_resolver()), on the same calendar
SnapshotEager ==
    /\ pc = "done"
    /\ result # None
    /\ rerun = FirstRun
    /\ CalendarWithin(ical, ZoneEntries \cup ZoneStartEntries)
    /\ ical' = ical
    /\ rerun' = Rerun("eager", <<0, 0>>)
    /\ tz_resolver' = Some(build_tz_resolver(ical))
    /\ Restart

----------------------------------------------------------------------------
(* Specification                                                           *)

Next ==
    \/ PrecheckFails
    \/ PrecheckPasses
    \/ SkipComponent
    \/ KindMismatch
    \/ BeginComponent
    \/ OrganizerEntry
    \/ AttendeeEntry
    \/ UidEntry
    \/ SequenceEntry
    \/ RecurrenceIdEntry
    \/ RequestStatusEntry
    \/ DtstampEntry
    \/ ValueEntry
    \/ OtherEntry
    \/ InsertFails
    \/ InsertComponent
    \/ Finish

\* One call of itip_snapshot
Spec == Init /\ [][Next]_vars

NextAgain ==
    \/ PrecheckFails
    \/ PrecheckPasses
    \/ SkipComponent
    \/ KindMismatch
    \/ BeginComponent
    \/ OrganizerEntry
    \/ AttendeeEntry
    \/ UidEntry
    \/ SequenceEntry
    \/ RecurrenceIdEntry
    \/ RequestStatusEntry
    \/ DtstampEntry
    \/ ValueEntry
    \/ OtherEntry
    \/ InsertFails
    \/ InsertComponent
    \/ Finish
    \/ AddTolerated
    \/ PermuteParameters
    \/ RemoveBrokenOrganizer
    \/ SnapshotEager

\* A call, and a second call the caller makes on a changed calendar
SpecAgain == Init /\ [][NextAgain]_vars

----------------------------------------------------------------------------
(* The queue manager: Queue and the loop of SpawnQueue::spawn              *)

\* The state of an extraction that is never started
NoExtraction ==
    /\ ical = [components |-> <<>>]
    /\ account_emails = AccountEmails
    /\ force_add_client_scheduling = FALSE
    /\ pc = "start"
    /\ comp_id = 0
    /\ entry_id = 0
    /\ organizer = None
    /\ uid = None
    /\ components = {}
    /\ expect_object_type = None
    /\ has_local_emails = FALSE
    /\ tz_resolver = None
    /\ sched_comp = NewSnapshot(0)
    /\ instance_id = Main
    /\ result = None
    /\ baseline = None
    /\ rerun = FirstRun

extraction_vars ==
    <<ical, account_emails, force_add_client_scheduling, pc, comp_id, entry_id,
      organizer, uid, components, expect_object_type, has_local_emails,
      tz_resolver, sched_comp, instance_id, result, baseline, rerun>>

\* OnHold { next_due, limiters, message }
OnHold(next_due, limiters, message) ==
    [next_due |-> next_due, limiters |-> limiters, message |-> message]

\* The OnHold events that may reach the loop: due at the latest time or
\* never, held for no limiter or for both
HeldDues == {None, Some(MaxDue)}
HeldLimiters == {<<>>, <<"l1", "l2">>}

\* The message of the n-th OnHold event, and of a scheduled event
HeldMessage(n) == <<"held", n>>
ScheduledMessage(event) == <<"scheduled", event.queue_id>>

\* QueueEventLock { due, queue_id, .. }
QueueEvent(due, id) == [due |-> due, queue_id |-> id]

\* Mutant: the limiters are not looked at
Releasable_DueOnly(o, at) == o.next_due # None /\ Unwrap(o.next_due) <= at

\* o.limiters.iter().any(|l| l.concurrent.load(Relaxed) < l.max_concurrent)
\*     || o.next_due.map_or(false, |due| due <= now)
Releasable(o, at) ==
    \/ \E k \in 1..Len(o.limiters) : concurrent[o.limiters[k]] < MaxConcurrent
    \/ o.next_due # None /\ Unwrap(o.next_due) <= at

RECURSIVE position_from_Last(_, _, _)
\* Mutant: Iterator::rposition, the last entry that satisfies the predicate
position_from_Last(vec, at, k) ==
    IF k > Len(vec) THEN None
    ELSE LET later == position_from_Last(vec, at, k + 1)
         IN  IF later # None THEN later
             ELSE IF Releasable(vec[k], at) THEN Some(k)
             ELSE None

RECURSIVE position_from(_, _, _)
\* Iterator::position: the index (from 1) of the first entry at or after k
\* that satisfies the predicate
position_from(vec, at, k) ==
    IF k > Len(vec) THEN None
    ELSE IF Releasable(vec[k], at) THEN Some(k)
    ELSE position_from(vec, at, k + 1)

\* Vec::remove
remove(vec, pos) == SubSeq(vec, 1, pos - 1) \o SubSeq(vec, pos + 1, Len(vec))

\* Queue::next_on_hold at time `at`: what it returns, and on_hold after it
next_on_hold(vec, at) ==
    LET pos == position_from(vec, at, 1)
    IN  IF pos = None
        THEN [message |-> None, on_hold |-> vec]
        ELSE [message |-> Some(vec[Unwrap(pos)].message),
              on_hold |-> remove(vec, Unwrap(pos))]

\* Queue::on_hold
push_on_hold(vec, message) ==
    Append(vec, OnHold(message.next_due, message.limiters, message.message))

\* The latest time of a run: one LONG_WAIT past the times the clock ticks to
Horizon == LONG_WAIT + MaxDue

\* Time passes while the loop waits in recv or for a delivery attempt; the
\* timeout of a pending recv fires at its deadline
Tick ==
    /\ clock < MaxDue
    /\ loop_pc = "recv" => clock < deadline
    /\ loop_pc \in {"recv", "drain"}
    /\ clock' = clock + 1
    /\ UNCHANGED <<extraction_vars, dnsbl_vars, on_hold, next_wake_up, concurrent, loop_pc,
                   deadline, held_event, now, queue_events, attempts, wake, received>>

\* Another task takes or releases a slot of a limiter
LimiterChanges ==
    /\ loop_pc \in {"recv", "drain"}
    /\ \E l \in Limiters, n \in 0..MaxConcurrent :
          /\ n # concurrent[l]
          /\ concurrent' = [concurrent EXCEPT ![l] = n]
    /\ UNCHANGED <<extraction_vars, dnsbl_vars, on_hold, next_wake_up, clock, loop_pc,
                   deadline, held_event, now, queue_events, attempts, wake, received>>

\* Ok(Some(QueueEvent::OnHold(on_hold))) => on_hold.into()
RecvOnHold ==
    /\ loop_pc = "recv"
    /\ received < MaxReceived
    /\ \E due \in HeldDues, limiters \in HeldLimiters :
          held_event' = Some(OnHold(due, limiters, HeldMessage(received + 1)))
    /\ received' = received + 1
    /\ wake' = "on_hold"
    /\ loop_pc' = "drain"
    /\ UNCHANGED <<extraction_vars, dnsbl_vars, on_hold, next_wake_up, clock, concurrent,
                   deadline, now, queue_events, attempts>>

\* Any other queue event: _ => None
RecvOther ==
    /\ loop_pc = "recv"
    /\ held_event' = None
    /\ wake' = "event"
    /\ loop_pc' = "drain"
    /\ UNCHANGED <<extraction_vars, dnsbl_vars, on_hold, next_wake_up, clock, concurrent,
                   deadline, now, queue_events, attempts, received>>

\* The timeout elapses: Err(Elapsed), _ => None
RecvTimeout ==
    /\ loop_pc = "recv"
    /\ deadline <= Horizon
    /\ clock' = IF clock < deadline THEN deadline ELSE clock
    /\ held_event' = None
    /\ wake' = "timeout"
    /\ loop_pc' = "drain"
    /\ UNCHANGED <<extraction_vars, dnsbl_vars, on_hold, next_wake_up, concurrent, deadline,
                   now, queue_events, attempts, received>>

\* Ok(Some(QueueEvent::Stop)) | Ok(None) => break
RecvStop ==
    /\ loop_pc = "recv"
    /\ wake' = "stop"
    /\ loop_pc' = "stopped"
    /\ UNCHANGED <<extraction_vars, dnsbl_vars, on_hold, next_wake_up, clock, concurrent,
                   deadline, held_event, now, queue_events, attempts, received>>

\* process_events: while let Some(queue_event) = self.next_on_hold() {
\*     DeliveryAttempt::new(queue_event).try_deliver(..).await }
DeliverOnHold ==
    /\ loop_pc = "drain"
    /\ next_on_hold(on_hold, clock).message # None
    /\ attempts' = attempts \cup {Unwrap(next_on_hold(on_hold, clock).message)}
    /\ on_hold' = next_on_hold(on_hold, clock).on_hold
    /\ UNCHANGED <<extraction_vars, dnsbl_vars, next_wake_up, clock, concurrent, loop_pc,
                   deadline, held_event, now, queue_events, wake, received>>

\* process_events: next_on_hold returns None; let now = now();
\* self.next_wake_up = LONG_WAIT; server.next_event().await
NextEvent ==
    /\ loop_pc = "drain"
    /\ next_on_hold(on_hold, clock).message = None
    /\ on_hold' = next_on_hold(on_hold, clock).on_hold
    /\ now' = clock
    /\ next_wake_up' = LONG_WAIT
    /\ \E n \in 0..MaxEvents :
          \E dues \in [1..n -> 0..MaxDue] :
              queue_events' = [k \in 1..n |-> QueueEvent(dues[k], k)]
    /\ loop_pc' = "schedule"
    /\ UNCHANGED <<extraction_vars, dnsbl_vars, clock, concurrent, deadline, held_event,
                   attempts, wake, received>>

RECURSIVE wake_up_after_FirstWins(_, _, _)
\* Mutant: a wake-up time already taken from an event is kept
wake_up_after_FirstWins(wait, events, at) ==
    IF events = <<>> THEN wait
    ELSE wake_up_after_FirstWins(
             IF Head(events).due <= at \/ wait # LONG_WAIT THEN wait
             ELSE Head(events).due - at,
             Tail(events), at)

RECURSIVE wake_up_after(_, _, _)
\* The value of next_wake_up after the loop over the events:
\* else { self.next_wake_up = Duration::from_secs(queue_event.due - now) }
wake_up_after(wait, events, at) ==
    IF events = <<>> THEN wait
    ELSE wake_up_after(IF Head(events).due <= at THEN wait ELSE Head(events).due - at,
                       Tail(events), at)

\* process_events: for queue_event in server.next_event().await { .. }
Schedule ==
    /\ loop_pc = "schedule"
    /\ attempts' = attempts \cup
          {ScheduledMessage(queue_events[k]) :
              k \in {k \in 1..Len(queue_events) : queue_events[k].due <= now}}
    /\ next_wake_up' = wake_up_after(next_wake_up, queue_events, now)
    /\ loop_pc' = "hold"
    /\ UNCHANGED <<extraction_vars, dnsbl_vars, on_hold, clock, concurrent, deadline,
                   held_event, now, queue_events, wake, received>>

\* if let Some(on_hold) = on_hold { queue.on_hold(on_hold) }, and the next
\* turn of the loop: timeout(queue.next_wake_up, self.recv())
Hold ==
    /\ loop_pc = "hold"
    /\ on_hold' = IF held_event = None THEN on_hold
                  ELSE push_on_hold(on_hold, Unwrap(held_event))
    /\ held_event' = None
    /\ queue_events' = <<>>
    /\ attempts' = {}
    /\ now' = 0
    /\ deadline' = clock + next_wake_up
    /\ loop_pc' = "recv"
    /\ UNCHANGED <<extraction_vars, dnsbl_vars, next_wake_up, clock, concurrent, wake, received>>

QueueInit ==
    /\ NoExtraction
    /\ DnsblIdle
    /\ tags = TagsOfListed
    /\ QueueNew
    /\ concurrent \in [Limiters -> 0..MaxConcurrent]

QueueNext ==
    \/ Tick
    \/ LimiterChanges
    \/ RecvOnHold
    \/ RecvOther
    \/ RecvTimeout
    \/ RecvStop
    \/ DeliverOnHold
    \/ NextEvent
    \/ Schedule
    \/ Hold

QueueSpec == QueueInit /\ [][QueueNext]_vars

----------------------------------------------------------------------------
(* The DNSBL check: is_dnsbl and the cache it shares with the other calls  *)

\* A cache entry: the addresses of a record or None, and when it expires
Cached(value, expires) == [present |-> TRUE, value |-> value, expires |-> expires]

\* Cache::get: the value of an entry that is present and has not expired
cache_get(cache, zone, at) ==
    IF cache[zone].present /\ at < cache[zone].expires
    THEN Some(cache[zone].value)
    ELSE None

\* Cache::insert_with_expiry(key, value, expires)
insert_with_expiry(cache, zone, value, expires) ==
    [cache EXCEPT ![zone] = Cached(value, expires)]

\* Cache::insert(key, value, ttl)
insert(cache, zone, value, ttl, at) ==
    [cache EXCEPT ![zone] = Cached(value, at + ttl)]

\* result.iter().copied().next().unwrap_or(Ipv4Addr::BROADCAST)
first_or_broadcast(entry) == IF entry = <<>> THEN BROADCAST ELSE Head(entry)

\* server.eval_if(&config.tags, IpResolver::new(ip), ..)
eval_tags(entry) == tags[first_or_broadcast(entry)]

\* The records the resolver answers with: no address, or two
Records == {<<>>, <<"127.0.0.2", "127.0.0.4">>}

\* The replies of ipv4_lookup_raw
Found(entry, expires) == [kind |-> "Ok", entry |-> entry, expires |-> expires]
NotFound == [kind |-> "DnsRecordNotFound"]
Failed == [kind |-> "Error"]

\* The call c is at pc with the given reply and returned value
Call(pc_, zone, reply, value) ==
    [pc |-> pc_, zone |-> zone, reply |-> reply, value |-> value]

\* return value, from the state the call looked the zone up in
Return(c, reply, value) ==
    calls' = [calls EXCEPT ![c] = Call("done", @.zone, reply, value)]

\* config.zone evaluates to nothing: .await? returns None
NoZone(c) ==
    /\ calls[c].pc = "idle"
    /\ Return(c, None, None)
    /\ UNCHANGED <<extraction_vars, queue_vars, dns_rbl, instant, tags>>

\* cache.dns_rbl.get(&zone) is Some(Some(result)) or Some(None)
CacheHit(c) ==
    /\ calls[c].pc = "idle"
    /\ \E zone \in Zones :
          /\ cache_get(dns_rbl, zone, instant) # None
          /\ LET hit == Unwrap(cache_get(dns_rbl, zone, instant))
             IN  calls' = [calls EXCEPT ![c] =
                              Call("done", Some(zone), None,
                                   IF hit = None THEN None
                                   ELSE eval_tags(Unwrap(hit)))]
    /\ UNCHANGED <<extraction_vars, queue_vars, dns_rbl, instant, tags>>

\* Mutant: the zone is looked up whatever the cache holds
CacheMiss_Regardless(c) ==
    /\ calls[c].pc = "idle"
    /\ \E zone \in Zones :
          calls' = [calls EXCEPT ![c] = Call("lookup", Some(zone), None, None)]
    /\ UNCHANGED <<extraction_vars, queue_vars, dns_rbl, instant, tags>>

\* cache.dns_rbl.get(&zone) is None: ipv4_lookup_raw(..).await
CacheMiss(c) ==
    /\ calls[c].pc = "idle"
    /\ \E zone \in Zones :
          /\ cache_get(dns_rbl, zone, instant) = None
          /\ calls' = [calls EXCEPT ![c] = Call("lookup", Some(zone), None, None)]
    /\ UNCHANGED <<extraction_vars, queue_vars, dns_rbl, instant, tags>>

\* Ok(result) => insert_with_expiry(zone, Some(entry), result.expires)
LookupOk(c) ==
    /\ calls[c].pc = "lookup"
    /\ \E entry \in Records, ttl \in 0..MaxTtl :
          /\ dns_rbl' = insert_with_expiry(dns_rbl, Unwrap(calls[c].zone),
                                           Some(entry), instant + ttl)
          /\ Return(c, Some(Found(entry, instant + ttl)), eval_tags(entry))
    /\ UNCHANGED <<extraction_vars, queue_vars, instant, tags>>

\* Err(Error::DnsRecordNotFound(_)) => insert(zone, None, 86400 s)
LookupNotFound(c) ==
    /\ calls[c].pc = "lookup"
    /\ dns_rbl' = insert(dns_rbl, Unwrap(calls[c].zone), None, NEGATIVE_TTL, instant)
    /\ Return(c, Some(NotFound), None)
    /\ UNCHANGED <<extraction_vars, queue_vars, instant, tags>>

\* Err(err) => return None
LookupFails(c) ==
    /\ calls[c].pc = "lookup"
    /\ Return(c, Some(Failed), None)
    /\ UNCHANGED <<extraction_vars, queue_vars, dns_rbl, instant, tags>>

\* The caller takes the value; it may call again
NextCall(c) ==
    /\ calls[c].pc = "done"
    /\ calls' = [calls EXCEPT ![c] = Idle]
    /\ UNCHANGED <<extraction_vars, queue_vars, dns_rbl, instant, tags>>

\* Time passes: a second, or the life of a negative entry
TimePasses ==
    /\ \E step \in {1, NEGATIVE_TTL} :
          /\ instant + step <= NEGATIVE_TTL + MaxInstant
          /\ step = 1 => instant % NEGATIVE_TTL < MaxInstant
          /\ instant' = instant + step
    /\ UNCHANGED <<extraction_vars, queue_vars, dns_rbl, calls, tags>>

\* The cache drops an entry to make room
Evict ==
    /\ \E zone \in Zones :
          /\ dns_rbl[zone].present
          /\ dns_rbl' = [dns_rbl EXCEPT ![zone] = Absent]
    /\ UNCHANGED <<extraction_vars, queue_vars, instant, calls, tags>>

DnsblInit ==
    /\ NoExtraction
    /\ QueueNew
    /\ concurrent = AllFree
    /\ DnsblIdle
    /\ tags = TagsOfListed

DnsblNext ==
    \/ \E c \in Callers : NoZone(c)
    \/ \E c \in Callers : CacheHit(c)
    \/ \E c \in Callers : CacheMiss(c)
    \/ \E c \in Callers : LookupOk(c)
    \/ \E c \in Callers : LookupNotFound(c)
    \/ \E c \in Callers : LookupFails(c)
    \/ \E c \in Callers : NextCall(c)
    \/ TimePasses
    \/ Evict

DnsblSpec == DnsblInit /\ [][DnsblNext]_vars

----------------------------------------------------------------------------
(* Vocabulary of the properties checked below: facts about the calendar    *)
(* and about where the walk stands when it has returned                    *)

Done == pc = "done"
ResultIs(e) == result = Some(Err(e))
Accepted == result # None /\ Unwrap(result).ok
Returned == Unwrap(result).value

\* Indices (from 1) of the scheduling components of the calendar
SchedComps ==
    {i \in 1..NumComps : is_scheduling_object(ical.components[i].component_type)}

KindOf(i) == ical.components[i].component_type

\* Positions <<component, property>> of the properties of a given name in
\* the scheduling components
Props(name) ==
    {q \in SchedComps \X (1..MaxEntries) :
        /\ q[2] <= Len(ical.components[q[1]].entries)
        /\ ical.components[q[1]].entries[q[2]].name = name}

EntryAt(q) == ical.components[q[1]].entries[q[2]]

\* Document order of positions
Before(q, r) == q[1] < r[1] \/ (q[1] = r[1] /\ q[2] < r[2])

\* First position of a non-empty set, in document order
FirstOf(S) == CHOOSE q \in S : \A r \in S : r = q \/ Before(q, r)

\* No scheduling component has an ORGANIZER property
NoOrganizerProperty == Props("Organizer") = {}

\* The walk has looked at this position: the property lies before the place
\* where the walk stands, or is the one it stopped at
Visited(q) ==
    /\ ~NoOrganizerProperty
    /\ \/ q[1] - 1 < comp_id
       \/ /\ q[1] - 1 = comp_id
          /\ q[2] - 1 <= entry_id
          /\ ~ResultIs("MultipleObjectTypes")

\* The walk went through every component and reached the final checks
WalkCompleted == Done /\ ~NoOrganizerProperty /\ comp_id = NumComps

----------------------------------------------------------------------------
(* C1: when no scheduling component has an ORGANIZER property, extraction  *)
(* fails with NoSchedulingInfo whatever else the calendar holds, and no    *)
(* per-component work is done: the walk never starts.                      *)

C1_NoSchedulingInfoFirst ==
    NoOrganizerProperty =>
        /\ pc \in {"start", "done"}
        /\ Done => ResultIs("NoSchedulingInfo")
        /\ organizer = None /\ uid = None /\ components = {}
        /\ expect_object_type = None /\ ~has_local_emails

\* Different trimmed UIDs are declared by two properties of the calendar
DeclaredUids ==
    {Trim(Unwrap(first_text(EntryAt(q)))) :
        q \in {r \in Props("Uid") : first_text(EntryAt(r)) # None}} \ {<<>>}

\* A calendar without organizer that mixes kinds, declares two UIDs and
\* has two components of the same instance has been refused
C1_Witness ==
    /\ Done
    /\ NoOrganizerProperty
    /\ ResultIs("NoSchedulingInfo")
    /\ \E i, j \in SchedComps : KindOf(i) # KindOf(j)
    /\ Cardinality(DeclaredUids) > 1

----------------------------------------------------------------------------
(* C2 (I1): extraction never succeeds on a calendar whose scheduling       *)
(* components are of more than one kind; it fails with MultipleObjectTypes *)
(* exactly when the walk comes to a scheduling component whose kind is not *)
(* that of the first scheduling component; components that are no          *)
(* scheduling objects never raise it.                                      *)

FirstSchedKind == KindOf(CHOOSE i \in SchedComps : \A j \in SchedComps : i <= j)

C2_MultipleObjectTypes ==
    Done =>
        /\ Accepted => \A i, j \in SchedComps : KindOf(i) = KindOf(j)
        /\ ResultIs("MultipleObjectTypes") <=>
              /\ ~NoOrganizerProperty
              /\ \E i \in SchedComps : i - 1 <= comp_id /\ KindOf(i) # FirstSchedKind
        /\ ResultIs("MultipleObjectTypes") =>
              /\ comp_id + 1 \in SchedComps
              /\ KindOf(comp_id + 1) # FirstSchedKind
              /\ \A i \in SchedComps : i - 1 < comp_id => KindOf(i) = FirstSchedKind

\* A VEVENT and a VTODO that both carry an ORGANIZER have been refused
C2_Witness ==
    /\ Done
    /\ ResultIs("MultipleObjectTypes")
    /\ NumComps = 2
    /\ \A i \in 1..NumComps : i \in SchedComps /\ HasOrganizerEntry(ical.components[i])

----------------------------------------------------------------------------
(* C3: extraction fails with MultipleUid exactly when the walk comes to a  *)
(* UID property whose non-empty trimmed value differs from that of a UID   *)
(* property before it; two VEVENTs without RECURRENCE-ID that declare the  *)
(* UIDs a and b fail with MultipleUid when the walk gets to the second     *)
(* UID, never with MultipleObjectInstances.                                *)

\* Positions of the UID properties with a non-empty trimmed text value
UidProps ==
    {q \in Props("Uid") :
        /\ first_text(EntryAt(q)) # None
        /\ Trim(Unwrap(first_text(EntryAt(q)))) # <<>>}

TrimmedUid(q) == Trim(Unwrap(first_text(EntryAt(q))))

\* The calendar is two scheduling components that declare different UIDs
TwoComponentsTwoUids ==
    /\ NumComps = 2
    /\ SchedComps = {1, 2}
    /\ \E q, r \in UidProps : q[1] = 1 /\ r[1] = 2 /\ TrimmedUid(q) # TrimmedUid(r)

C3_MultipleUid ==
    Done =>
        /\ ResultIs("MultipleUid") <=>
              \E q, r \in UidProps :
                  Before(q, r) /\ Visited(r) /\ TrimmedUid(q) # TrimmedUid(r)
        /\ TwoComponentsTwoUids =>
              /\ ~Accepted
              /\ ~ResultIs("MultipleObjectInstances")
              /\ ~ResultIs("MissingUid")
              /\ ~ResultIs("NotOrganizerNorAttendee")

\* Two VEVENTs, both keyed Main, with the UIDs a and b have been refused
\* with MultipleUid
C3_Witness ==
    /\ Done
    /\ ResultIs("MultipleUid")
    /\ TwoComponentsTwoUids
    /\ KindOf(1) = "VEVENT" /\ KindOf(2) = "VEVENT"
    /\ Props("RecurrenceId") = {}
    /\ instance_id = Main /\ \E e \in components : e.key = Main

----------------------------------------------------------------------------
(* C4 (P1): the uid of an accepted calendar is not empty and is the        *)
(* trimmed value of every UID property, of every scheduling component,     *)
(* whose trimmed text value is not empty.                                  *)

C4_UidIsTrimmedUid ==
    Accepted =>
        /\ Returned.uid # <<>>
        /\ \A q \in UidProps : Returned.uid = TrimmedUid(q)
        /\ UidProps # {}

\* Accepted with a UID written with surrounding blanks
C4_Witness ==
    /\ Accepted
    /\ \E q \in UidProps : Unwrap(first_text(EntryAt(q))) # TrimmedUid(q)
    /\ \E q \in UidProps : Unwrap(first_text(EntryAt(q))) = TrimmedUid(q)

----------------------------------------------------------------------------
(* C5 (I3, P3): in an accepted calendar every ORGANIZER property that      *)
(* parses to an email has the address of the returned organizer, and the   *)
(* returned organizer is the record built from the first such property in  *)
(* document order; extraction fails with MultipleOrganizer exactly when    *)
(* the walk comes to a parsable ORGANIZER, not refused as client-          *)
(* scheduled, whose address differs from that of an ORGANIZER before it.   *)

\* The email an ORGANIZER or ATTENDEE property parses to, if any
EmailAt(q) ==
    IF first_text(EntryAt(q)) = None THEN None
    ELSE EmailNew(Unwrap(first_text(EntryAt(q))), account_emails)

ParsableOrganizers == {q \in Props("Organizer") : EmailAt(q) # None}

\* The Organizer record of a parsable ORGANIZER property
OrganizerAt(q) == BuildOrganizer(q[2] - 1, Unwrap(EmailAt(q)), EntryAt(q).params)

\* The property is a client-scheduled organizer and the flag is not set
RefusedAsClient(q) ==
    ~OrganizerAt(q).is_server_scheduling /\ ~force_add_client_scheduling

C5_OneOrganizerFirstWins ==
    /\ Accepted =>
          /\ ParsableOrganizers # {}
          /\ \A q \in ParsableOrganizers :
                OrganizerAt(q).email.email = Returned.organizer.email.email
          /\ Returned.organizer = OrganizerAt(FirstOf(ParsableOrganizers))
    /\ Done =>
          (ResultIs("MultipleOrganizer") <=>
              \E q, r \in ParsableOrganizers :
                  /\ Before(q, r) /\ Visited(r) /\ ~RefusedAsClient(r)
                  /\ OrganizerAt(q).email.email # OrganizerAt(r).email.email)

\* Accepted with a second ORGANIZER of the same address whose record is
\* not the returned one
C5_Witness ==
    /\ Accepted
    /\ \E q \in ParsableOrganizers :
          /\ OrganizerAt(q).is_server_scheduling # Returned.organizer.is_server_scheduling
          /\ OrganizerAt(q).entry_id # Returned.organizer.entry_id

----------------------------------------------------------------------------
(* C6: without force_add_client_scheduling, extraction fails with          *)
(* OtherSchedulingAgent exactly when the walk comes to a parsable,         *)
(* client-scheduled ORGANIZER, and no calendar with one is accepted; with  *)
(* the flag, no calendar fails with OtherSchedulingAgent, and an accepted  *)
(* calendar whose organizer property is client-scheduled returns an        *)
(* organizer with is_server_scheduling false.                              *)

C6_OtherSchedulingAgent ==
    Done =>
        /\ ~force_add_client_scheduling =>
              /\ ResultIs("OtherSchedulingAgent") <=>
                    \E q \in ParsableOrganizers :
                        Visited(q) /\ ~OrganizerAt(q).is_server_scheduling
              /\ Accepted =>
                    \A q \in ParsableOrganizers : OrganizerAt(q).is_server_scheduling
        /\ force_add_client_scheduling =>
              /\ ~ResultIs("OtherSchedulingAgent")
              /\ (Accepted /\ ~OrganizerAt(FirstOf(ParsableOrganizers)).is_server_scheduling)
                    => ~Returned.organizer.is_server_scheduling

\* With the flag, a calendar whose only organizer is client-scheduled has
\* been accepted
C6_Witness ==
    /\ Done
    /\ force_add_client_scheduling
    /\ Accepted
    /\ ~Returned.organizer.is_server_scheduling
    /\ \A q \in ParsableOrganizers : ~OrganizerAt(q).is_server_scheduling

----------------------------------------------------------------------------
(* C7 (I4, P2): in an accepted calendar each scheduling component has      *)
(* exactly one entry in components, the keys are pairwise distinct, Main   *)
(* occurs at most once and no two Recurrence keys have the same            *)
(* (date, this_and_future); extraction fails with MultipleObjectInstances  *)
(* exactly when a component, walked to its end, resolves to a key that is  *)
(* already present.                                                        *)

SameInstance(a, b) ==
    \/ a.tag = "Main" /\ b.tag = "Main"
    \/ /\ a.tag = "Recurrence" /\ b.tag = "Recurrence"
       /\ <<a.rid.date, a.rid.this_and_future>> = <<b.rid.date, b.rid.this_and_future>>

\* The walk stands at the end of a scheduling component's properties
AtInsertion ==
    /\ ~NoOrganizerProperty
    /\ comp_id < NumComps
    /\ comp_id + 1 \in SchedComps
    /\ entry_id = NumEntries
    /\ ~ResultIs("MultipleObjectTypes")

C7_UniqueInstances ==
    /\ Accepted =>
          /\ \A i \in SchedComps :
                Cardinality({e \in Returned.components : e.snap.comp_id = i - 1}) = 1
          /\ \A e \in Returned.components : e.snap.comp_id + 1 \in SchedComps
          /\ \A e1, e2 \in Returned.components :
                e1 # e2 => ~SameInstance(e1.key, e2.key)
          /\ Cardinality({e \in Returned.components : e.key.tag = "Main"}) <= 1
    /\ Done =>
          (ResultIs("MultipleObjectInstances") <=>
              /\ AtInsertion
              /\ \E e \in components : SameInstance(e.key, instance_id))

\* Accepted with two recurrences of the same date, one of them
\* this-and-future
C7_Witness ==
    /\ Accepted
    /\ \E e1, e2 \in Returned.components :
          /\ e1.key.tag = "Recurrence" /\ e2.key.tag = "Recurrence"
          /\ e1.key.rid.date = e2.key.rid.date
          /\ e1.key.rid.this_and_future # e2.key.rid.this_and_future

----------------------------------------------------------------------------
(* C8 (I5): a calendar that the walk goes through without error and in     *)
(* which no organizer and no attendee address belongs to the account fails *)
(* with NotOrganizerNorAttendee.                                           *)

ParsableAttendees == {q \in Props("Attendee") : EmailAt(q) # None}

\* Some organizer or attendee address of the calendar is the account's
LocalAddressSomewhere ==
    \E q \in ParsableOrganizers \cup ParsableAttendees : Unwrap(EmailAt(q)).is_local

C8_NotOrganizerNorAttendee ==
    /\ (WalkCompleted /\ ~LocalAddressSomewhere) => ResultIs("NotOrganizerNorAttendee")
    /\ (Done /\ ~LocalAddressSomewhere) => ~Accepted /\ ~ResultIs("MissingUid")

\* A single VEVENT whose organizer and attendee are remote has been refused
C8_Witness ==
    /\ Done
    /\ ResultIs("NotOrganizerNorAttendee")
    /\ NumComps = 1
    /\ ParsableOrganizers # {} /\ ParsableAttendees # {} /\ UidProps # {}
    /\ ~LocalAddressSomewhere

----------------------------------------------------------------------------
(* C9 (P5), as stated: the structure returned for an accepted calendar     *)
(* holds a local participant: the organizer is local, or an attendee kept  *)
(* in a snapshot is local and server-scheduled (or the flag is set).       *)

\* The Attendee record of a parsable ATTENDEE property
AttendeeAt(q) ==
    BuildAttendee(q[2] - 1, Unwrap(EmailAt(q)), EntryAt(q).params, account_emails)

\* The attendee is one the local-gating rule counts
Gated(att) ==
    att.email.is_local /\ (att.is_server_scheduling \/ force_add_client_scheduling)

C9_ReturnedHoldsLocalParticipant ==
    Accepted =>
        \/ Returned.organizer.email.is_local
        \/ \E e \in Returned.components :
              \E k \in 1..Len(e.snap.attendees) : Gated(e.snap.attendees[k])

(* C9, amended: the organizer is local, or a snapshot keeps a local        *)
(* attendee and that attendee, or an ATTENDEE property of the same         *)
(* component and address that collapsed into it, is server-scheduled (or   *)
(* the flag is set).                                                       *)
C9_LocalParticipantOrCollapsed ==
    Accepted =>
        \/ Returned.organizer.email.is_local
        \/ \E e \in Returned.components :
              \E k \in 1..Len(e.snap.attendees) :
                  /\ e.snap.attendees[k].email.is_local
                  /\ \E q \in ParsableAttendees :
                        /\ q[1] - 1 = e.snap.comp_id
                        /\ AttendeeAt(q).email.email = e.snap.attendees[k].email.email
                        /\ Gated(AttendeeAt(q))

\* Accepted, without the flag, with a remote organizer and a local attendee
\* kept as client-scheduled
C9_Witness ==
    /\ Accepted
    /\ ~force_add_client_scheduling
    /\ ~Returned.organizer.email.is_local
    /\ \E e \in Returned.components :
          \E k \in 1..Len(e.snap.attendees) :
              /\ e.snap.attendees[k].email.is_local
              /\ ~e.snap.attendees[k].is_server_scheduling

----------------------------------------------------------------------------
(* C10: after a walk without error the final checks come in a fixed order: *)
(* no local participant gives NotOrganizerNorAttendee, even with no        *)
(* organizer or UID; otherwise no organizer gives NoSchedulingInfo, even   *)
(* with no UID; otherwise no UID gives MissingUid; otherwise the calendar  *)
(* is accepted.                                                            *)

\* Some property of the calendar sets has_local_emails
LocalParticipant ==
    \/ \E q \in ParsableOrganizers : Unwrap(EmailAt(q)).is_local
    \/ \E q \in ParsableAttendees : Gated(AttendeeAt(q))

C10_FinalChecksInOrder ==
    WalkCompleted =>
        /\ has_local_emails <=> LocalParticipant
        /\ organizer = None <=> ParsableOrganizers = {}
        /\ uid = None <=> UidProps = {}
        /\ IF ~LocalParticipant THEN ResultIs("NotOrganizerNorAttendee")
           ELSE IF ParsableOrganizers = {} THEN ResultIs("NoSchedulingInfo")
           ELSE IF UidProps = {} THEN ResultIs("MissingUid")
           ELSE Accepted

\* A walk without error ended in NoSchedulingInfo with a local attendee, no
\* organizer and no UID
C10_Witness ==
    /\ WalkCompleted
    /\ ResultIs("NoSchedulingInfo")
    /\ has_local_emails /\ organizer = None /\ uid = None

----------------------------------------------------------------------------
(* C11: a UID property whose text value is empty or blank counts as no UID *)
(* property: the recorded uid is never empty and is the trimmed value of   *)
(* the first non-blank UID the walk came to, if any; MultipleUid is raised *)
(* only at a non-blank UID and because of a non-blank UID before it; and a *)
(* calendar whose UID properties are all blank, with a local participant   *)
(* and an organizer, fails with MissingUid when the walk completes.        *)

\* Positions of the UID properties whose text value is empty or blank
BlankUidProps ==
    {q \in Props("Uid") :
        /\ first_text(EntryAt(q)) # None
        /\ Trim(Unwrap(first_text(EntryAt(q)))) = <<>>}

\* The non-blank UID properties the walk has come to
VisitedUidProps == {q \in UidProps : Visited(q)}

C11_BlankUidIsAbsent ==
    /\ uid # Some(<<>>)
    /\ Done =>
          /\ uid = None <=> VisitedUidProps = {}
          /\ uid # None => Unwrap(uid) = TrimmedUid(FirstOf(VisitedUidProps))
          /\ ResultIs("MultipleUid") =>
                /\ <<comp_id + 1, entry_id + 1>> \in UidProps
                /\ \E q \in UidProps :
                      /\ Before(q, <<comp_id + 1, entry_id + 1>>)
                      /\ TrimmedUid(q) # TrimmedUid(<<comp_id + 1, entry_id + 1>>)
          /\ UidProps = {} => ~Accepted /\ ~ResultIs("MultipleUid")
          /\ (WalkCompleted /\ UidProps = {} /\ LocalParticipant
                  /\ ParsableOrganizers # {}) => ResultIs("MissingUid")
          /\ (WalkCompleted /\ Cardinality(DeclaredUids) = 1 /\ LocalParticipant
                  /\ ParsableOrganizers # {}) => Accepted

\* A calendar with an empty UID and a blank UID, and no other, has failed
\* with MissingUid
C11_Witness ==
    /\ Done
    /\ ResultIs("MissingUid")
    /\ \E q, r \in BlankUidProps :
          /\ Unwrap(first_text(EntryAt(q))) = <<>>
          /\ Unwrap(first_text(EntryAt(r))) # <<>>

----------------------------------------------------------------------------
(* C12: extraction is all or nothing.  Until it returns there is no        *)
(* result; when it returns, the result is either Ok with the organizer,    *)
(* the uid and exactly one snapshot for every scheduling component of the  *)
(* calendar, or one error kind of the eight and nothing else: what the     *)
(* walk had built by then is not part of it.                               *)

ErrorKinds ==
    {"NoSchedulingInfo", "MultipleObjectTypes", "MultipleOrganizer", "MultipleUid",
     "MultipleObjectInstances", "MissingUid", "OtherSchedulingAgent",
     "NotOrganizerNorAttendee"}

C12_AllOrNothing ==
    /\ ~Done => result = None
    /\ Done =>
          /\ result # None
          /\ Accepted =>
                /\ DOMAIN Unwrap(result) = {"ok", "value"}
                /\ DOMAIN Returned = {"organizer", "uid", "components"}
                /\ organizer # None /\ Returned.organizer = Unwrap(organizer)
                /\ uid # None /\ Returned.uid = Unwrap(uid)
                /\ Cardinality(Returned.components) = Cardinality(SchedComps)
                /\ \A i \in SchedComps :
                      \E e \in Returned.components : e.snap.comp_id = i - 1
          /\ ~Accepted =>
                /\ DOMAIN Unwrap(result) = {"ok", "error"}
                /\ Unwrap(result).error \in ErrorKinds

\* An error was returned after the walk had recorded an organizer, a uid
\* and a component's snapshot
C12_Witness ==
    /\ Done
    /\ ~Accepted
    /\ organizer # None /\ uid # None /\ components # {}
    /\ Unwrap(result).error = "MultipleObjectInstances"

----------------------------------------------------------------------------
(* C13: tolerance.  When an accepted calendar is extracted again after one *)
(* ATTENDEE that parses to no email, one parameter that no match arm       *)
(* names, or one value that has no projection was added to it, the result  *)
(* is again Ok, with the same organizer and uid, and every component has   *)
(* the key, the attendees and the entries it had: nothing was added.       *)
(* (Positions in the component, entry_id, move when a property is put in   *)
(* before them and are left out of the comparison.)                        *)

\* A record without its position in the component
NoEntryId(r) == [r EXCEPT !.entry_id = 0]

KeyFacts(key) ==
    IF key.tag = "Main" THEN key ELSE Recurrence(NoEntryId(key.rid))

\* What a returned structure says, positions left out
SnapshotFacts(e) ==
    [comp_id |-> e.snap.comp_id,
     key |-> KeyFacts(e.key),
     attendees |-> [k \in 1..Len(e.snap.attendees) |-> NoEntryId(e.snap.attendees[k])],
     entries |-> e.snap.entries,
     dtstamp |-> e.snap.dtstamp,
     sequence |-> e.snap.sequence,
     request_status |-> e.snap.request_status]

ResultFacts(r) ==
    [organizer |-> NoEntryId(r.value.organizer),
     uid |-> r.value.uid,
     components |-> {SnapshotFacts(e) : e \in r.value.components}]

C13_Tolerance ==
    (Done /\ rerun.why = "tolerated") =>
        /\ Accepted
        /\ ResultFacts(Unwrap(result)) = ResultFacts(Unwrap(baseline))

\* A calendar with an attendee in its snapshot was accepted again with a
\* broken ATTENDEE put in before that attendee
C13_Witness ==
    /\ Done
    /\ rerun.why = "tolerated"
    /\ Accepted
    /\ \E q \in Props("Attendee"), r \in ParsableAttendees :
          Before(q, r) /\ EmailAt(q) = None
    /\ \E e \in Returned.components : e.snap.attendees # <<>>

----------------------------------------------------------------------------
(* C14: when extraction returns, in every snapshot it has stored the       *)
(* ATTENDEE properties of one normalised address are one attendee, and it  *)
(* is the record built from the first of them in document order;           *)
(* attendee_by_email of an address returns that record, and None when no   *)
(* ATTENDEE of the component parses to that address.                       *)

\* The addresses asked for: the account's, the remote one, one that no
\* property has, and the account's as the calendar writes it
QueryAddresses ==
    {<<"a", "@", "x">>, <<"r", "@", "y">>, <<"b", "@", "z">>, AddrLocal}

\* The parsable ATTENDEE properties of a component with a given address
AttendeesOf(comp, email) ==
    {q \in ParsableAttendees : q[1] = comp /\ AttendeeAt(q).email.email = email}

C14_FirstAttendeeWins ==
    Done =>
        \A e \in components :
            /\ \A email \in QueryAddresses :
                  attendee_by_email(e.snap, email) =
                      IF AttendeesOf(e.snap.comp_id + 1, email) = {} THEN None
                      ELSE Some(AttendeeAt(FirstOf(AttendeesOf(e.snap.comp_id + 1, email))))
            /\ Len(e.snap.attendees) =
                  Cardinality({AttendeeAt(q).email.email :
                                  q \in {r \in ParsableAttendees :
                                             r[1] = e.snap.comp_id + 1}})

\* A snapshot keeps the first of two ATTENDEE properties of the account's
\* address, whose records differ in more than their position
C14_Witness ==
    Done /\ \E e \in components :
        \E q, r \in AttendeesOf(e.snap.comp_id + 1, <<"a", "@", "x">>) :
            /\ Before(q, r)
            /\ NoEntryId(AttendeeAt(q)) # NoEntryId(AttendeeAt(r))
            /\ attendee_by_email(e.snap, <<"a", "@", "x">>) = Some(AttendeeAt(q))
            /\ Len(e.snap.attendees) = 2

----------------------------------------------------------------------------
(* C15, as stated: when extraction returns, every record of an organizer   *)
(* or attendee the walk has built has is_server_scheduling false if and    *)
(* only if its property carries a SCHEDULE-AGENT=CLIENT parameter.         *)

\* The property carries a SCHEDULE-AGENT parameter of this value
HasAgent(entry, agent) ==
    \E k \in 1..Len(entry.params) :
        entry.params[k].p = "ScheduleAgent" /\ entry.params[k].v = agent

\* The value of the last SCHEDULE-AGENT parameter of the property, if any
LastAgent(entry) ==
    LET ks == {k \in 1..Len(entry.params) : entry.params[k].p = "ScheduleAgent"}
    IN  IF ks = {} THEN None
        ELSE Some(entry.params[CHOOSE k \in ks : \A j \in ks : j <= k].v)

\* The snapshots the walk holds: the stored ones and the one folded last
HeldSnapshots == {e.snap : e \in components} \cup {sched_comp}

\* The ATTENDEE property an attendee record of a snapshot was built from
PropertyOf(snap, att) == ical.components[snap.comp_id + 1].entries[att.entry_id + 1]

\* The ORGANIZER properties the recorded organizer can have been built from
OrganizerProperties ==
    {q \in ParsableOrganizers : organizer = Some(OrganizerAt(q))}

C15_FalseIffClient ==
    Done =>
        /\ \A q \in OrganizerProperties :
              Unwrap(organizer).is_server_scheduling = ~HasAgent(EntryAt(q), "CLIENT")
        /\ \A snap \in HeldSnapshots :
              \A k \in 1..Len(snap.attendees) :
                  snap.attendees[k].is_server_scheduling =
                      ~HasAgent(PropertyOf(snap, snap.attendees[k]), "CLIENT")

(* C15, amended: is_server_scheduling is true if and only if the property  *)
(* carries no SCHEDULE-AGENT parameter or its SCHEDULE-AGENT parameter     *)
(* (the last one, when it is repeated) is SERVER; CLIENT, NONE and every   *)
(* other value make it false.                                              *)
C15_TrueIffServer ==
    Done =>
        /\ organizer # None => OrganizerProperties # {}
        /\ \A q \in OrganizerProperties :
              Unwrap(organizer).is_server_scheduling =
                  (LastAgent(EntryAt(q)) \in {None, Some("SERVER")})
        /\ \A snap \in HeldSnapshots :
              \A k \in 1..Len(snap.attendees) :
                  /\ PropertyOf(snap, snap.attendees[k]).name = "Attendee"
                  /\ snap.attendees[k].is_server_scheduling =
                        (LastAgent(PropertyOf(snap, snap.attendees[k]))
                            \in {None, Some("SERVER")})

\* An accepted calendar whose organizer and attendee carry
\* SCHEDULE-AGENT=NONE: neither record is server-scheduled
C15_Witness ==
    /\ Accepted
    /\ \A q \in OrganizerProperties : LastAgent(EntryAt(q)) = Some("NONE")
    /\ ~Returned.organizer.is_server_scheduling
    /\ \E e \in Returned.components :
          \E k \in 1..Len(e.snap.attendees) :
              /\ LastAgent(PropertyOf(e.snap, e.snap.attendees[k])) = Some("NONE")
              /\ ~e.snap.attendees[k].is_server_scheduling

----------------------------------------------------------------------------
(* C16: local gating.  When extraction returns, has_local_emails is set    *)
(* exactly when the walk came to an organizer with a local address, or to  *)
(* an ATTENDEE whose address is local and which is server-scheduled or     *)
(* extracted with force_add_client_scheduling.  A calendar whose organizer *)
(* is remote and whose only local addresses are attendees that are not     *)
(* server-scheduled ends, once the walk completes, in                      *)
(* NotOrganizerNorAttendee without the flag and is accepted with it (given *)
(* a UID).  OtherSchedulingAgent is raised at an ORGANIZER property only.  *)

\* The organizers are remote, and the local addresses of the calendar are
\* those of attendees that are not server-scheduled
RemoteOrganizerClientAttendee ==
    /\ ParsableOrganizers # {}
    /\ \A q \in ParsableOrganizers : ~Unwrap(EmailAt(q)).is_local
    /\ \E q \in ParsableAttendees : AttendeeAt(q).email.is_local
    /\ \A q \in ParsableAttendees :
          AttendeeAt(q).email.is_local => ~AttendeeAt(q).is_server_scheduling

C16_LocalGating ==
    Done =>
        /\ has_local_emails <=>
              \/ \E q \in ParsableOrganizers : Visited(q) /\ Unwrap(EmailAt(q)).is_local
              \/ \E q \in ParsableAttendees : Visited(q) /\ Gated(AttendeeAt(q))
        /\ (WalkCompleted /\ RemoteOrganizerClientAttendee) =>
              IF ~force_add_client_scheduling THEN ResultIs("NotOrganizerNorAttendee")
              ELSE IF UidProps = {} THEN ResultIs("MissingUid")
              ELSE Accepted
        /\ ResultIs("OtherSchedulingAgent") =>
              /\ EntryAt(<<comp_id + 1, entry_id + 1>>).name = "Organizer"
              /\ ~OrganizerAt(<<comp_id + 1, entry_id + 1>>).is_server_scheduling
        /\ (\A q \in ParsableOrganizers : OrganizerAt(q).is_server_scheduling)
              => ~ResultIs("OtherSchedulingAgent")

\* With the flag, a calendar with a remote server-scheduled organizer and a
\* local client-scheduled attendee has been accepted
C16_Witness ==
    /\ Accepted
    /\ force_add_client_scheduling
    /\ RemoteOrganizerClientAttendee
    /\ \A q \in ParsableOrganizers : OrganizerAt(q).is_server_scheduling
    /\ \E q \in ParsableAttendees : HasAgent(EntryAt(q), "CLIENT")

----------------------------------------------------------------------------
(* C17: the conversion of a date-time never makes extraction fail.  When   *)
(* the walk has gone past a RECURRENCE-ID with a date-time value it has    *)
(* not returned, and the component is keyed Recurrence; the key's date is  *)
(* the floating timestamp of the value when the TZID is absent or unknown  *)
(* to the calendar, or when the conversion in the zone fails (the default, *)
(* zero, when the value has no floating timestamp either), and the instant *)
(* in the zone otherwise.  The same holds of the timestamp of a projected  *)
(* date-time value.  An error raised at a property is raised at an         *)
(* ORGANIZER or a UID, never at a property that holds a date-time.         *)

\* The walk has just gone past this property
JustPassed(q) == pc = "entry" /\ comp_id = q[1] - 1 /\ entry_id = q[2]

\* The zones the VTIMEZONE components of the calendar define
DefinedZones ==
    {ical.components[i] :
        i \in {i \in 1..NumComps : ical.components[i].component_type = "VTIMEZONE"}}

\* The zone the property names (by the last TZID parameter it gives), when
\* the calendar defines it
ZoneNamedBy(entry) ==
    {c \in DefinedZones :
        \E k \in 1..Len(entry.params), j \in 1..Len(c.entries) :
            /\ entry.params[k].p = "Tzid"
            /\ \A l \in (k + 1)..Len(entry.params) : entry.params[l].p # "Tzid"
            /\ c.entries[j].name = "Tzid"
            /\ c.entries[j].values = <<Text(entry.params[k].v)>>}

\* The floating timestamp of a date-time, zero when it has none
FloatingTimestamp(date) == IF date.complete THEN date.local ELSE 0

\* The timestamp extraction is to give the date-time of a property
ExpectedTimestamp(entry, date) ==
    IF ZoneNamedBy(entry) = {} \/ ~date.complete \/ date.local = 120
    THEN FloatingTimestamp(date)
    ELSE date.local - 10

\* Positions of the RECURRENCE-ID properties, of scheduling components,
\* whose first value is a date-time
DatedRecurrenceIds ==
    {q \in SchedComps \X (1..MaxEntries) :
        /\ q[2] <= Len(ical.components[q[1]].entries)
        /\ EntryAt(q).name = "RecurrenceId"
        /\ first_date(EntryAt(q)) # None}

\* The property the walk has just gone past, when it has one behind it
\* in the component it is in
LastPassed == <<comp_id + 1, entry_id>>

C17_ConversionNeverFails ==
    /\ (pc = "entry" /\ entry_id > 0 /\ LastPassed \in DatedRecurrenceIds) =>
          /\ result = None
          /\ instance_id.tag = "Recurrence"
          /\ instance_id.rid.entry_id = entry_id - 1
          /\ instance_id.rid.date =
                ExpectedTimestamp(EntryAt(LastPassed),
                                  Unwrap(first_date(EntryAt(LastPassed))))
    /\ (pc = "entry" /\ entry_id > 0 /\ EntryAt(LastPassed).name = "Dtstart") =>
          /\ result = None
          /\ \A k \in 1..Len(EntryAt(LastPassed).values) :
                EntryAt(LastPassed).values[k].t = "PartialDateTime" =>
                    \E e \in sched_comp.entries :
                        /\ e.name = "Dtstart"
                        /\ e.value.t = "DateTime"
                        /\ e.value.date = EntryAt(LastPassed).values[k]
                        /\ e.value.timestamp =
                              ExpectedTimestamp(EntryAt(LastPassed),
                                                EntryAt(LastPassed).values[k])
    /\ (Done /\ (ResultIs("MultipleOrganizer") \/ ResultIs("OtherSchedulingAgent")
                    \/ ResultIs("MultipleUid"))) =>
          EntryAt(<<comp_id + 1, entry_id + 1>>).name \in {"Organizer", "Uid"}

\* In a calendar that defines zone Z, the walk has gone past a
\* RECURRENCE-ID of an unknown zone, and the component is keyed by the
\* floating timestamp
C17_Witness ==
    /\ DefinedZones # {}
    /\ \E q \in DatedRecurrenceIds :
          /\ JustPassed(q)
          /\ EntryAt(q) = RidUnknownZone
          /\ organizer # None
          /\ instance_id = Recurrence([entry_id |-> q[2] - 1, date |-> 110,
                                        this_and_future |-> FALSE])

----------------------------------------------------------------------------
(* C19: the instance keyer.  While a component is walked its key is Main   *)
(* until the walk has gone past a RECURRENCE-ID with a date-time value,    *)
(* and from then on the Recurrence built from the last such property gone  *)
(* past: its entry_id, its date, and this_and_future true exactly when     *)
(* that property carries a RANGE parameter.  The snapshot is stored under  *)
(* the key of the whole component, and a RECURRENCE-ID that follows        *)
(* another raises no error.                                                *)

\* The dated RECURRENCE-ID properties among the first n of a component
DatedRidsOf(comp, n) ==
    {q \in {comp} \X (1..n) :
        EntryAt(q).name = "RecurrenceId" /\ first_date(EntryAt(q)) # None}

\* Last position of a non-empty set, in document order
LastOf(S) == CHOOSE q \in S : \A r \in S : r = q \/ Before(r, q)

HasRange(entry) == \E k \in 1..Len(entry.params) : entry.params[k] = Range

\* The key of a component after its first n properties
KeyAfter(comp, n) ==
    IF DatedRidsOf(comp, n) = {} THEN Main
    ELSE LET q == LastOf(DatedRidsOf(comp, n))
         IN  Recurrence([entry_id |-> q[2] - 1,
                         date |-> ExpectedTimestamp(EntryAt(q),
                                                    Unwrap(first_date(EntryAt(q)))),
                         this_and_future |-> HasRange(EntryAt(q))])

C19_LastRecurrenceIdWins ==
    /\ pc = "entry" => instance_id = KeyAfter(comp_id + 1, entry_id)
    /\ \A e \in components :
          e.key = KeyAfter(e.snap.comp_id + 1,
                           Len(ical.components[e.snap.comp_id + 1].entries))
    /\ (pc = "entry" /\ entry_id > 0 /\ LastPassed \in DatedRecurrenceIds)
          => result = None

\* An accepted component with two RECURRENCE-IDs of different dates, the
\* last one with RANGE and the one before without, is keyed by the last
C19_Witness ==
    /\ Accepted
    /\ \E e \in Returned.components :
          \E q, r \in DatedRidsOf(e.snap.comp_id + 1,
                                   Len(ical.components[e.snap.comp_id + 1].entries)) :
              /\ Before(q, r)
              /\ r = LastOf(DatedRidsOf(e.snap.comp_id + 1,
                                        Len(ical.components[e.snap.comp_id + 1].entries)))
              /\ ~HasRange(EntryAt(q)) /\ HasRange(EntryAt(r))
              /\ first_date(EntryAt(q)) # first_date(EntryAt(r))
              /\ e.key.rid.entry_id = r[2] - 1
              /\ e.key.rid.this_and_future
    /\ \E e \in Returned.components : e.key = Main

----------------------------------------------------------------------------
(* C20: for DTSTAMP the last occurrence wins.  While a component is walked *)
(* and once its snapshot is stored, snapshot.dtstamp is None when no       *)
(* DTSTAMP property was gone past, and otherwise what the first value of   *)
(* the last DTSTAMP property gone past gives as a partial date-time (None  *)
(* when it has no value or a value of another type), whatever the DTSTAMP  *)
(* properties before it hold.                                              *)

\* The DTSTAMP properties among the first n of a component
DtstampsOf(comp, n) == {q \in {comp} \X (1..n) : EntryAt(q).name = "Dtstamp"}

\* The time stamp of a component after its first n properties
DtstampAfter(comp, n) ==
    IF DtstampsOf(comp, n) = {} THEN None
    ELSE LET entry == EntryAt(LastOf(DtstampsOf(comp, n)))
         IN  IF entry.values = <<>> \/ entry.values[1].t # "PartialDateTime" THEN None
             ELSE Some(entry.values[1])

C20_LastDtstampWins ==
    /\ pc = "entry" => sched_comp.dtstamp = DtstampAfter(comp_id + 1, entry_id)
    /\ \A e \in components :
          e.snap.dtstamp =
              DtstampAfter(e.snap.comp_id + 1,
                           Len(ical.components[e.snap.comp_id + 1].entries))

\* An accepted component with two DTSTAMP properties of different values
\* holds the first value of the last one
C20_Witness ==
    /\ Accepted
    /\ \E e \in Returned.components :
          \E q, r \in DtstampsOf(e.snap.comp_id + 1,
                                  Len(ical.components[e.snap.comp_id + 1].entries)) :
              /\ Before(q, r)
              /\ EntryAt(q) = DtstampOne
              /\ EntryAt(r) = DtstampTwo
              /\ e.snap.dtstamp = Some(PartialDateTime(120, TRUE))

----------------------------------------------------------------------------
(* C21, as stated: when the calendar is extracted again with the           *)
(* parameters of one ORGANIZER, ATTENDEE or RECURRENCE-ID property in      *)
(* another order, the result is the same: success or the same error kind,  *)
(* and the same Organizer, Attendee and RecurrenceId records.              *)

\* What the claim compares: the outcome, the organizer, and the attendees
\* and the key of every snapshot
ParticipantFacts(r) ==
    IF ~r.ok THEN r
    ELSE [organizer |-> r.value.organizer,
          components |-> {[key |-> e.key, attendees |-> e.snap.attendees] :
                             e \in r.value.components}]

C21_ParameterOrderIrrelevant ==
    (Done /\ rerun.why = "permuted") =>
        ParticipantFacts(Unwrap(result)) = ParticipantFacts(Unwrap(baseline))

\* No parameter of the property is given twice
NoRepeatedParameter(entry) ==
    \A j, k \in 1..Len(entry.params) :
        j # k => entry.params[j].p # entry.params[k].p

(* C21, amended: the result is the same when the permuted property gives   *)
(* no parameter twice; of a parameter given twice the last one counts, so  *)
(* the order of its occurrences matters.                                   *)
C21_OrderOfDistinctParameters ==
    (Done /\ rerun.why = "permuted" /\ NoRepeatedParameter(EntryAt(rerun.at))) =>
        /\ result = baseline
        /\ ParticipantFacts(Unwrap(result)) = ParticipantFacts(Unwrap(baseline))

\* Accepted again, with the same records, after the two parameters of the
\* organizer or of an attendee that was built were swapped
C21_Witness ==
    /\ Accepted
    /\ rerun.why = "permuted"
    /\ NoRepeatedParameter(EntryAt(rerun.at))
    /\ Len(EntryAt(rerun.at).params) = 2
    /\ \/ /\ EntryAt(rerun.at).name = "Organizer"
          /\ Returned.organizer.entry_id = rerun.at[2] - 1
          /\ Returned.organizer.force_send # None
       \/ /\ EntryAt(rerun.at).name = "Attendee"
          /\ \E e \in Returned.components :
                \E k \in 1..Len(e.snap.attendees) :
                    /\ e.snap.comp_id = rerun.at[1] - 1
                    /\ e.snap.attendees[k].entry_id = rerun.at[2] - 1
                    /\ e.snap.attendees[k].rsvp # None
                    /\ ~e.snap.attendees[k].is_server_scheduling

----------------------------------------------------------------------------
(* C22, as stated: when the calendar is extracted again without one        *)
(* ORGANIZER property whose first value parses to no email, the outcome    *)
(* (success, or which error kind) is the same.                             *)

\* Success, or the error kind
Outcome(r) == IF r.ok THEN "Ok" ELSE r.error

C22_BrokenOrganizerIgnored ==
    (Done /\ rerun.why = "stripped") =>
        Outcome(Unwrap(result)) = Outcome(Unwrap(baseline))

(* C22, amended: the walk ignores the property, so the outcome (and, on    *)
(* success, what is returned, positions apart) is the same when another    *)
(* ORGANIZER property remains in a scheduling component.  When none        *)
(* remains, the calendar without the property fails the precondition with  *)
(* NoSchedulingInfo, while the calendar with it passed the precondition    *)
(* and was walked: it failed with the first error of the walk              *)
(* (MultipleObjectTypes, MultipleUid, MultipleObjectInstances), else with  *)
(* NotOrganizerNorAttendee when no attendee counts as local, else with     *)
(* NoSchedulingInfo.                                                       *)
C22_BrokenOrganizerIgnoredByWalk ==
    (Done /\ rerun.why = "stripped") =>
        IF ~NoOrganizerProperty
        THEN /\ Outcome(Unwrap(result)) = Outcome(Unwrap(baseline))
             /\ Accepted =>
                   ResultFacts(Unwrap(result)) = ResultFacts(Unwrap(baseline))
        ELSE /\ ResultIs("NoSchedulingInfo")
             /\ Outcome(Unwrap(baseline)) \in
                   {"MultipleObjectTypes", "MultipleUid", "MultipleObjectInstances",
                    "NotOrganizerNorAttendee", "NoSchedulingInfo"}
             /\ Cardinality(SchedComps) = 1 /\ Cardinality(DeclaredUids) <= 1 =>
                   Outcome(Unwrap(baseline)) =
                       IF \E q \in ParsableAttendees : Gated(AttendeeAt(q))
                       THEN "NoSchedulingInfo"
                       ELSE "NotOrganizerNorAttendee"

\* Accepted again, with the same organizer, after an unparsable ORGANIZER
\* that stood before the organizer's property was removed
C22_Witness ==
    /\ Accepted
    /\ rerun.why = "stripped"
    /\ Unwrap(baseline).ok
    /\ rerun.at[1] = 1
    /\ Returned.organizer.entry_id + 1 >= rerun.at[2]
    /\ Unwrap(baseline).value.organizer.entry_id = Returned.organizer.entry_id + 1

----------------------------------------------------------------------------
(* C23: the time-zone resolver is built at most once per call and reused:  *)
(* it is absent until the walk has gone past a RECURRENCE-ID whose first   *)
(* value is a date-time or past a projected property holding a date-time   *)
(* value, it is the table of the whole calendar from then on, and it is    *)
(* never replaced during the call; a calendar without such a property      *)
(* never has it built.  The result is the same as that of the variant      *)
(* that builds the resolver before the walk.                               *)

\* The property asks the resolver for a zone
NeedsResolver(entry) ==
    \/ entry.name = "RecurrenceId" /\ first_date(entry) # None
    \/ /\ entry.name \in ProjectedProperties
       /\ \E k \in 1..Len(entry.values) : entry.values[k].t = "PartialDateTime"

\* Positions of the properties, of scheduling components, that ask the
\* resolver for a zone
ResolvingProps ==
    {q \in SchedComps \X (1..MaxEntries) :
        /\ q[2] <= Len(ical.components[q[1]].entries)
        /\ NeedsResolver(EntryAt(q))}

\* The walk has gone past this property
Passed(q) ==
    \/ q[1] - 1 < comp_id
    \/ /\ q[1] - 1 = comp_id
       /\ q[2] - 1 < entry_id
       /\ pc = "entry" \/ (pc = "done" /\ ~ResultIs("MultipleObjectTypes"))

\* A step of one call (the caller does not start another one)
SameCall == rerun' = rerun

C23_ResolverBuiltOnce ==
    /\ [](/\ rerun.why # "eager" =>
              /\ tz_resolver = None <=> ~\E q \in ResolvingProps : Passed(q)
              /\ tz_resolver # None => tz_resolver = Some(build_tz_resolver(ical))
          /\ (Done /\ rerun.why = "eager") => result = baseline)
    /\ [][(SameCall /\ tz_resolver # None) => tz_resolver' = tz_resolver]_vars

\* Both variants accept a calendar whose zone is defined after the
\* component that has a RECURRENCE-ID in it, and a start in no known zone
C23_Witness ==
    /\ Accepted
    /\ rerun.why = "eager"
    /\ result = baseline
    /\ NumComps >= 2
    /\ ical.components[NumComps].component_type = "VTIMEZONE"
    /\ \E q \in ResolvingProps : q[1] = 1 /\ EntryAt(q) = RidTwoZoned
    /\ \E e \in Returned.components :
          e.key.tag = "Recurrence" /\ e.key.rid.date = 100

----------------------------------------------------------------------------
(* C24: once the precondition has passed, the error returned is that of    *)
(* the earliest violation in walk order: for each scheduling component     *)
(* the kind check, then its properties in order (at an ORGANIZER the       *)
(* scheduling agent before the address), then the insertion of the         *)
(* instance; the walk stops there.  Only a walk without violation reaches  *)
(* the final checks.                                                       *)

\* Places of a component in walk order: 0 is the kind check, 1..n are the
\* properties, n + 1 is the insertion
InsertionOf(c) == <<c, Len(ical.components[c].entries) + 1>>

KindViolations == {q \in SchedComps \X {0} : KindOf(q[1]) # FirstSchedKind}

AgentViolations == {q \in ParsableOrganizers : RefusedAsClient(q)}

OrganizerViolations ==
    LET parsable == ParsableOrganizers
    IN  IF parsable = {} THEN {}
        ELSE LET kept == Unwrap(EmailAt(FirstOf(parsable))).email
             IN  {q \in parsable : Unwrap(EmailAt(q)).email # kept}

UidViolations ==
    LET declared == UidProps
    IN  IF declared = {} THEN {}
        ELSE LET kept == TrimmedUid(FirstOf(declared))
             IN  {q \in declared : TrimmedUid(q) # kept}

InstanceViolations ==
    {InsertionOf(c) : c \in
        {c \in SchedComps :
            \E d \in SchedComps :
                /\ d < c
                /\ InstanceIdEq(KeyAfter(d, Len(ical.components[d].entries)),
                                KeyAfter(c, Len(ical.components[c].entries)))}}

WalkViolations ==
    KindViolations \cup AgentViolations \cup OrganizerViolations
        \cup UidViolations \cup InstanceViolations

\* The error raised at a place
ErrorAt(q) ==
    CASE q \in KindViolations -> "MultipleObjectTypes"
      [] q \in AgentViolations -> "OtherSchedulingAgent"
      [] q \in OrganizerViolations -> "MultipleOrganizer"
      [] q \in UidViolations -> "MultipleUid"
      [] q \in InstanceViolations -> "MultipleObjectInstances"

\* The place where the walk stands
WalkPlace == <<comp_id + 1, IF ResultIs("MultipleObjectTypes") THEN 0 ELSE entry_id + 1>>

C24_EarliestViolationWins ==
    (Done /\ ~NoOrganizerProperty) =>
        IF WalkViolations # {}
        THEN LET earliest == FirstOf(WalkViolations)
             IN  /\ ResultIs(ErrorAt(earliest))
                 /\ WalkPlace = earliest
        ELSE /\ comp_id = NumComps
             /\ \/ Accepted
                \/ ResultIs("NotOrganizerNorAttendee")
                \/ ResultIs("NoSchedulingInfo")
                \/ ResultIs("MissingUid")

\* A client-scheduled ORGANIZER of another address than the organizer's,
\* with the flag off, in a calendar that would fail the final checks too
C24_Witness ==
    /\ Done
    /\ ~force_add_client_scheduling
    /\ ResultIs("OtherSchedulingAgent")
    /\ FirstOf(WalkViolations) \in AgentViolations \cap OrganizerViolations
    /\ UidProps = {}

----------------------------------------------------------------------------
(* C25: Queue::next_on_hold returns the message of the entry of lowest     *)
(* index that has a limiter with concurrent < max_concurrent or a next_due *)
(* <= now, removes exactly that entry and keeps the order of the others;   *)
(* when no entry qualifies it returns None and leaves on_hold as it is.    *)
(* Queue::on_hold only appends at the end.  Nothing else changes on_hold.  *)

\* The limiters an entry is held for
LimitersOf(o) == {o.limiters[k] : k \in 1..Len(o.limiters)}

\* The held message could leave the hold now
CouldLeaveHold(o) ==
    \/ \E l \in LimitersOf(o) : concurrent[l] < MaxConcurrent
    \/ o.next_due # None /\ Unwrap(o.next_due) <= clock

\* Indices of the entries that could leave the hold
Qualifying == {k \in 1..Len(on_hold) : CouldLeaveHold(on_hold[k])}

\* The step is one call of next_on_hold
CallsNextOnHold == loop_pc = "drain" /\ clock' = clock /\ concurrent' = concurrent

\* The step is the call of Queue::on_hold, when the loop holds an event
CallsOnHold == loop_pc = "hold" /\ held_event # None

----------------------------------------------------------------------------
(* C26, as stated: when process_events has returned, every event that      *)
(* next_event returned with due <= now has been handed to a delivery       *)
(* attempt, and next_wake_up is the time until the earliest returned event *)
(* with due > now, or LONG_WAIT when there is none.                        *)

\* Indices of the returned events that are due later
LaterEvents == {k \in 1..Len(queue_events) : queue_events[k].due > now}

\* process_events has returned
ProcessEventsReturned == loop_pc = "hold"

DueEventsAttempted ==
    \A k \in 1..Len(queue_events) :
        queue_events[k].due <= now => ScheduledMessage(queue_events[k]) \in attempts

C26_WakeUpAtEarliest ==
    ProcessEventsReturned =>
        /\ DueEventsAttempted
        /\ next_wake_up =
              IF LaterEvents = {} THEN LONG_WAIT
              ELSE LET k == CHOOSE k \in LaterEvents :
                                \A j \in LaterEvents :
                                    queue_events[k].due <= queue_events[j].due
                   IN  queue_events[k].due - now

(* C26, amended: next_wake_up is the time until the last returned event    *)
(* with due > now (the earliest one when next_event returns the later      *)
(* events in descending order of due, or returns a single one).            *)
C26_WakeUpAtLastReturned ==
    ProcessEventsReturned =>
        /\ DueEventsAttempted
        /\ next_wake_up =
              IF LaterEvents = {} THEN LONG_WAIT
              ELSE LET k == CHOOSE k \in LaterEvents : \A j \in LaterEvents : j <= k
                   IN  queue_events[k].due - now

\* next_event returned an event that is due and a later one
C26_Witness ==
    /\ ProcessEventsReturned
    /\ Len(queue_events) = 2
    /\ queue_events[1].due <= now
    /\ queue_events[2].due = now + 1
    /\ ScheduledMessage(queue_events[1]) \in attempts
    /\ next_wake_up = 1

----------------------------------------------------------------------------
(* C27, as stated: a message received as OnHold is taken off hold without  *)
(* a further queue event, because the loop wakes up no later than the      *)
(* message's next_due: the timeout of the recv the loop waits in fires by  *)
(* the next_due of every held message whose next_due is still to come.     *)

----------------------------------------------------------------------------
(* C28: is_dnsbl looks a zone up only when the cache has no live entry for *)
(* it.  A successful lookup is cached with the record's expiry and the     *)
(* call returns the tag of the record; DnsRecordNotFound is cached as a    *)
(* negative entry for 86400 seconds and the call returns None; any other   *)
(* error returns None and leaves the cache as it is.  A call made while an *)
(* entry is live returns, without a lookup and without touching the cache, *)
(* the tag of the cached record, or None for a negative entry.             *)

\* The cache holds an entry for the zone that has not expired
Live(zone) == dns_rbl[zone].present /\ dns_rbl[zone].expires > instant

\* The tag config.tags gives the first address of a record, or the
\* broadcast address when the record has none
TagOf(entry) == IF entry = <<>> THEN tags[BROADCAST] ELSE tags[entry[1]]

\* The step takes the call from one position to another
Moves(c, from, to) == calls[c].pc = from /\ calls'[c].pc = to

\* The cache after the step differs from the cache before in the entry of
\* the zone only, which has the given value and expiry
Caches(zone, value, expires) ==
    /\ dns_rbl'[zone] = [present |-> TRUE, value |-> value, expires |-> expires]
    /\ \A z \in Zones \ {zone} : dns_rbl'[z] = dns_rbl[z]

C28_LookupOnlyOnMiss ==
    [][\A c \in Callers :
          /\ Moves(c, "idle", "lookup") => ~Live(Unwrap(calls'[c].zone))
          /\ (Moves(c, "idle", "done") /\ calls'[c].zone # None) =>
                LET zone == Unwrap(calls'[c].zone)
                IN  /\ Live(zone)
                    /\ dns_rbl' = dns_rbl
                    /\ calls'[c].reply = None
                    /\ calls'[c].value =
                          IF dns_rbl[zone].value = None THEN None
                          ELSE TagOf(Unwrap(dns_rbl[zone].value))
          /\ Moves(c, "lookup", "done") =>
                LET zone == Unwrap(calls[c].zone)
                    reply == Unwrap(calls'[c].reply)
                IN  CASE reply.kind = "Ok" ->
                           /\ Caches(zone, Some(reply.entry), reply.expires)
                           /\ calls'[c].value = TagOf(reply.entry)
                      [] reply.kind = "DnsRecordNotFound" ->
                           /\ Caches(zone, None, instant + 86400)
                           /\ calls'[c].value = None
                      [] OTHER ->
                           /\ dns_rbl' = dns_rbl
                           /\ calls'[c].value = None]_vars

\* A call has returned the tag of the record another call looked up and
\* cached, and a call is answered from a negative entry of the other zone
C28_Witness ==
    /\ calls[2].pc = "done"
    /\ calls[2].reply # None
    /\ Unwrap(calls[2].reply).kind = "Ok"
    /\ calls[1].pc = "done"
    /\ calls[1].reply = None
    /\ calls[1].zone = calls[2].zone
    /\ calls[1].value = Some("127.0.0.2")
    /\ instant > 0
    /\ \E z \in Zones : Live(z) /\ dns_rbl[z].value = None

====
